---- MODULE Spec2Model ----
(***************************************************************************)
(* http2nostr: the HTTP-to-nostr proxy of src/src/server.ts (runServer).   *)
(*                                                                         *)
(* Times are integers in milliseconds: Date.now() is `now`, and a value    *)
(* the code holds in seconds (oldestTime, created_at) is held here         *)
(* multiplied by 1000, so that Date.now() / 1000 keeps its fraction.       *)
(* A base64 string is a sequence of sextets 0..63, with 64 for the         *)
(* padding character '='; a Buffer is a sequence of bytes 0..255.          *)
(***************************************************************************)
EXTENDS Integers, Sequences, FiniteSets, TLC

VARIABLES
  \* runServer options and startup, lines 168-201
  initialRelayUrls,           \* line 196, normalized and de-duplicated
  fixedDestinationPublicKey,  \* line 173, "" when no --destination is given
  keepHost,                   \* options.keepHost
  maxCachedRelays,            \* line 201
  \* clock
  startup,                    \* runServer's own position, lines 168-679
  now,                        \* Date.now(), ms
  oldestTime,                 \* line 184, ms
  oldestTimeDue,              \* when the interval of lines 187-194 fires next, ms
  since,                      \* line 380: the since of the subscriptions, ms
  rewindDue,                  \* when the interval of lines 378-404 fires next, ms
  \* ingress
  handledEventTimes,          \* line 227: outer event id -> created_at
  handledResponseIds,         \* line 185: inner event id -> created_at
  pipelineRuns,               \* outer event id -> how many times onevent ran on it
  responseRuns,               \* <<inner id, created_at>> -> how many times an
                              \* inner event passed the checks of lines 274-285
  \* relay pool
  cachedRelays,               \* line 200: sequence of [url, requestIds,
                              \* subscription], MRU last
  \* pending table
  pendingResponses,           \* line 228: fullId -> PendingResponse
  timer,                      \* per request: the setTimeout of lines 538-547
  assembled,                  \* per request: the part map and parts count the
                              \* response was assembled from (lines 331-342)
  \* HTTP gateway
  req,                        \* per request: the handler's locals and position
  res,                        \* per request: the http.ServerResponse
  socket,                     \* per request: the client connection
  published,                  \* the gift wraps handed to relays so far
  crashed,                    \* an exception escaped every handler
  \* req.on('end') segmentation, lines 556-584
  segPc,              \* position in the 'end' callback
  body,               \* Buffer.concat(bodyChunks)
  bodyBase64,         \* line 558
  bodyBase64Chunks,   \* line 559
  requestMessages     \* the RequestMessage objects of lines 569-584, in loop order

segVars == <<segPc, body, bodyBase64, bodyBase64Chunks, requestMessages>>

configVars == <<initialRelayUrls, fixedDestinationPublicKey, keepHost, maxCachedRelays,
                startup>>

clockVars == <<now, oldestTime, oldestTimeDue, since, rewindDue>>

coreVars == <<handledEventTimes, handledResponseIds, pipelineRuns, responseRuns, cachedRelays,
              pendingResponses, timer, assembled, req, res, socket, published,
              crashed>>

vars == <<initialRelayUrls, fixedDestinationPublicKey, keepHost, maxCachedRelays,
          startup, now, oldestTime, oldestTimeDue, since, rewindDue,
          handledEventTimes, handledResponseIds, pipelineRuns, responseRuns, cachedRelays,
          pendingResponses,
          timer, assembled, req, res, socket, published, crashed,
          segPc, body, bodyBase64, bodyBase64Chunks, requestMessages>>

Min(a, b) == IF a < b THEN a ELSE b

\* A function on 1..n as a sequence value.
AsSeq(f, n) == SubSeq(f, 1, n)

----------------------------------------------------------------------------
(* Startup: runServer, lines 168-228                                       *)

EphemeralGiftWrapKind == 21059
SealKind == 13
HttpRequestKind == 80
HttpResponseKind == 81

MaxRequests == 2

\* The request ids minted by randomUUID(), line 429: one per request.
RequestIds == 1..MaxRequests

\* The requests of the relay-pool scenario.
PoolRequests == 3

PoolRequestIds == 1..PoolRequests

AllRequestIds == RequestIds \cup PoolRequestIds

Empty == [x \in {} |-> 0]

\* An http.ServerResponse nothing was written to.
FreshResponse ==
  [ended |-> FALSE, origin |-> "", status |-> 0, headers |-> "", text |-> "",
   bytes |-> <<>>]

\* The handler's locals before the request arrives.
NoRequest ==
  [pc |-> "none", headers |-> {}, destinationPublicKey |-> "",
   hintRelays |-> <<>>, hintIndex |-> 0, bodyLength |-> 0, parts |-> 0,
   partIndex |-> 0, inflight |-> {}, targets |-> <<>>, targetIndex |-> 0,
   log |-> <<>>]

NotAssembled == [done |-> FALSE, responseMessages |-> <<>>, parts |-> 0]

StartTime == 1000000

\* normalizeURL of nostr-tools/utils on the URLs used here: the trailing
\* slash of an empty path is stripped; "bad" is a string new URL() rejects.
NormalizeURL(url) ==
  CASE url = "wss://a/"  -> "wss://a"
    [] url = "wss://h1/" -> "wss://h1"
    [] url = "wss://h2/" -> "wss://h2"
    [] OTHER             -> url

\* Lines 88-91: the configured relays normalized, each kept at its first
\* occurrence.
readWriteRelays(relays) ==
  LET n == Len(relays)
      allRelays == [i \in 1..n |-> NormalizeURL(relays[i])]
      first == {i \in 1..n : \A j \in 1..(i - 1) : allRelays[j] # allRelays[i]}
      Rank(i) == Cardinality({j \in first : j <= i})
  IN  AsSeq([k \in 1..Cardinality(first) |->
               allRelays[CHOOSE i \in first : Rank(i) = k]],
            Cardinality(first))

\* Math.ceil(Date.now() / 1000) - 48 * 3600 (lines 380, 409 and 479), in ms.
SinceOf(t) == ((t + 999) \div 1000) * 1000 - 172800000

\* Lines 184-228: the tables and timers runServer sets up for the
\* configuration cfg, at time t.
Constructed(cfg, t) ==
  /\ initialRelayUrls = readWriteRelays(cfg.relays)
  /\ fixedDestinationPublicKey = cfg.destination
  /\ keepHost = cfg.keepHost
  /\ maxCachedRelays = cfg.maxCachedRelays
  /\ now = t
  /\ oldestTime = t
  /\ oldestTimeDue = t + 600000
  /\ since = SinceOf(t)
  /\ rewindDue = t + 3600000
  /\ handledEventTimes = Empty
  /\ handledResponseIds = Empty
  /\ pipelineRuns = Empty
  /\ responseRuns = Empty
  /\ cachedRelays = <<>>
  /\ pendingResponses = Empty
  /\ timer = [r \in AllRequestIds |-> "unset"]
  /\ assembled = [r \in AllRequestIds |-> NotAssembled]
  /\ req = [r \in AllRequestIds |-> NoRequest]
  /\ res = [r \in AllRequestIds |-> FreshResponse]
  /\ socket = [r \in AllRequestIds |-> "none"]
  /\ published = {}
  /\ crashed = FALSE

\* runServer after server.listen (line 669): the key was generated, and with
\* initial relays the pool was subscribed and sampled with every relay
\* connected.
Listening(relays) ==
  [pc |-> "listening", options |-> [nsecFile |-> FALSE, holds |-> "absent",
                                    saveNsec |-> FALSE],
   secretKey |-> "generated", subscribed |-> Len(relays) > 0,
   samples |-> IF Len(relays) > 0
               THEN <<{relays[i] : i \in 1..Len(relays)}>> ELSE <<>>]

\* The state runServer leaves behind for the configuration cfg, at time t.
Started(cfg, t) ==
  /\ Constructed(cfg, t)
  /\ startup = Listening(readWriteRelays(cfg.relays))

SegIdle ==
  /\ segPc = "idle"
  /\ body = <<>>
  /\ bodyBase64 = <<>>
  /\ bodyBase64Chunks = <<>>
  /\ requestMessages = <<>>

----------------------------------------------------------------------------
(* Relay pool: cleanupCachedRelays, lines 202-225; onClose, lines 523-534  *)

\* The unpinned entry closest to the most-recently-used end, 0 if none.
FindUnusedLast(cached) ==
  LET idx == {i \in 1..Len(cached) : cached[i].requestIds = {}}
  IN  IF idx = {} THEN 0 ELSE CHOOSE i \in idx : \A j \in idx : i >= j

\* cachedRelays.find(({requestIds}) => requestIds.size === 0): its index, 0 if none.
FindUnused(cached) ==
  LET idx == {i \in 1..Len(cached) : cached[i].requestIds = {}}
  IN  IF idx = {} THEN 0 ELSE CHOOSE i \in idx : \A j \in idx : i <= j

RemoveAt(seq, i) == SubSeq(seq, 1, i - 1) \o SubSeq(seq, i + 1, Len(seq))

\* cleanupCachedRelays that closes nothing.
KeepCachedRelays(cached, max) == cached

\* The oldest entries closed until max are left, pinned or not.
DropOldest(cached, max) ==
  IF Len(cached) > max THEN SubSeq(cached, Len(cached) - max + 1, Len(cached))
  ELSE cached

\* Lines 213-224: the list after the while loop.
RECURSIVE cleanupCachedRelays(_, _)
cleanupCachedRelays(cached, max) ==
  IF Len(cached) > max /\ FindUnused(cached) # 0
  THEN cleanupCachedRelays(RemoveAt(cached, FindUnused(cached)), max)
  ELSE cached

\* Lines 523-534 leaving the loop at the first relay that held id.
onCloseFirst(cached, id, max) ==
  LET held     == {i \in 1..Len(cached) : id \in cached[i].requestIds}
      unpinned == [i \in 1..Len(cached) |->
                     IF held # {} /\ \A j \in held : i <= j
                     THEN [cached[i] EXCEPT !.requestIds = @ \ {id}]
                     ELSE cached[i]]
  IN  IF held # {} THEN cleanupCachedRelays(AsSeq(unpinned, Len(cached)), max)
      ELSE cached

\* Lines 523-534: unpin id from every cached relay, then evict if it was pinned.
onClose(cached, id, max) ==
  LET found    == \E i \in 1..Len(cached) : id \in cached[i].requestIds
      unpinned == [i \in 1..Len(cached) |->
                     [cached[i] EXCEPT !.requestIds = @ \ {id}]]
  IN  IF found THEN cleanupCachedRelays(AsSeq(unpinned, Len(cached)), max)
      ELSE cached

----------------------------------------------------------------------------
(* Base64: Buffer.prototype.toString('base64') and Buffer.from(s, 'base64') *)

Pad == 64

\* Length of the base64 form of n bytes (padded to a multiple of 4).
Base64Length(n) == 4 * ((n + 2) \div 3)

ByteAt(bytes, n, j) == IF j <= n THEN bytes[j] ELSE 0

\* Buffer.toString('base64'): three bytes to four sextets, '=' padding.
Base64Encode(bytes) ==
  LET n == Len(bytes)
  IN  AsSeq([i \in 1..Base64Length(n) |->
               LET g  == (i - 1) \div 4
                   p  == (i - 1) % 4
                   b0 == ByteAt(bytes, n, 3 * g + 1)
                   b1 == ByteAt(bytes, n, 3 * g + 2)
                   b2 == ByteAt(bytes, n, 3 * g + 3)
               IN  CASE p = 0 -> b0 \div 4
                     [] p = 1 -> (b0 % 4) * 16 + (b1 \div 16)
                     [] p = 2 -> IF 3 * g + 2 > n THEN Pad
                                 ELSE (b1 % 16) * 4 + (b2 \div 64)
                     [] OTHER -> IF 3 * g + 3 > n THEN Pad
                                 ELSE b2 % 64],
            Base64Length(n))

\* Number of characters Node's decoder consumes: it stops at the first '='.
DecodableLength(s) ==
  LET len  == Len(s)
      pads == {i \in 1..len : s[i] = Pad}
  IN  IF pads = {} THEN len
      ELSE (CHOOSE i \in pads : \A j \in pads : i <= j) - 1

SextetAt(s, eff, i) == IF i <= eff THEN s[i] ELSE 0

\* Buffer.from(s, 'base64'): lenient, never throws; four sextets to three
\* bytes, a trailing group of 2 or 3 sextets gives 1 or 2 bytes.
Base64Decode(s) ==
  LET eff == DecodableLength(s)
      r   == eff % 4
      n   == (eff \div 4) * 3 + (IF r = 2 THEN 1 ELSE IF r = 3 THEN 2 ELSE 0)
  IN  AsSeq([j \in 1..n |->
               LET g  == (j - 1) \div 3
                   k  == (j - 1) % 3
                   c0 == SextetAt(s, eff, 4 * g + 1)
                   c1 == SextetAt(s, eff, 4 * g + 2)
                   c2 == SextetAt(s, eff, 4 * g + 3)
                   c3 == SextetAt(s, eff, 4 * g + 4)
               IN  CASE k = 0 -> c0 * 4 + (c1 \div 16)
                     [] k = 1 -> (c1 % 16) * 16 + (c2 \div 4)
                     [] OTHER -> (c2 % 4) * 64 + c3],
            n)

----------------------------------------------------------------------------
(* HTTP response handle: res.writeHead / res.end                           *)

\* res.writeHead(status) throws when the headers were already sent
\* (ERR_HTTP_HEADERS_SENT) or the status is outside 100..999
\* (ERR_HTTP_INVALID_STATUS_CODE); a closed socket does not make it throw.
CanWriteHead(response, status) ==
  /\ ~response.ended
  /\ status >= 100
  /\ status <= 999

\* The response after writeHead(status, headers) and end(body).
Written(origin, status, headers, text, bytes) ==
  [ended |-> TRUE, origin |-> origin, status |-> status, headers |-> headers,
   text |-> text, bytes |-> bytes]

----------------------------------------------------------------------------
(* Ingress: onevent, lines 230-359                                         *)

\* Map.prototype.set on the part map, kept in insertion order: a key already
\* present keeps its place and takes the new value.
MapIndex(msgs, partIndex) ==
  LET idx == {i \in 1..Len(msgs) : msgs[i].partIndex = partIndex}
  IN  IF idx = {} THEN 0 ELSE CHOOSE i \in idx : TRUE

MapSet(msgs, m) ==
  IF MapIndex(msgs, m.partIndex) = 0 THEN Append(msgs, m)
  ELSE [msgs EXCEPT ![MapIndex(msgs, m.partIndex)] = m]

\* The parts joined in the order they were inserted.
RECURSIVE JoinInserted(_, _, _)
JoinInserted(msgs, index, parts) ==
  IF index >= Len(msgs) THEN <<>>
  ELSE msgs[index + 1].bodyBase64 \o JoinInserted(msgs, index + 1, parts)

\* Lines 338-340: Array.from({length: parts}).map((_, index) =>
\* responseMessages.get(index)?.bodyBase64 ?? '').join(''), from index on.
RECURSIVE JoinBodies(_, _, _)
JoinBodies(msgs, index, parts) ==
  IF index >= parts THEN <<>>
  ELSE (IF MapIndex(msgs, index) = 0 THEN <<>>
        ELSE msgs[MapIndex(msgs, index)].bodyBase64)
       \o JoinBodies(msgs, index + 1, parts)

\* What a stored ResponseMessage keeps of the event's message.
StoredMessage(e) ==
  [partIndex |-> e.partIndex, parts |-> e.parts, status |-> e.status,
   headers |-> e.headers, bodyBase64 |-> e.bodyBase64]

\* Line 274 with <= for <.
TooOldInclusive(createdAt, oldest) == createdAt <= oldest

\* Line 274: unsignedResponse.created_at < oldestTime.
TooOld(createdAt, oldest) == createdAt < oldest

\* Line 278 never true.
NeverTooNew(createdAt, t) == FALSE

\* Line 278: Date.now() / 1000 + 600 < unsignedResponse.created_at.
TooNew(createdAt, t) == t + 600000 < createdAt

\* Line 282 never finding the id.
NeverHandled(innerId, handledIds) == FALSE

\* Line 282: handledResponseIds.has(unsignedResponse.id).
AlreadyHandled(innerId, handledIds) == innerId \in handledIds

\* Lines 234-285 without verifyEvent (lines 249-252).
PipelineUnverified(e, oldest, t, handledIds) ==
  CASE e.kind # EphemeralGiftWrapKind        -> "kind"
    [] ~e.sealDecrypts                       -> "seal decrypt"
    [] e.sealKind # SealKind                 -> "seal kind"
    [] ~e.innerDecrypts                      -> "inner decrypt"
    [] e.innerKind # HttpResponseKind        -> "inner kind"
    [] e.innerPubkey # e.sealPubkey          -> "pubkey"
    [] ~(e.innerCreatedAtIsNumber /\ e.innerIdIsString /\ e.innerContentIsString)
                                             -> "format"
    [] TooOld(e.innerCreatedAt, oldest)      -> "old"
    [] TooNew(e.innerCreatedAt, t)           -> "future"
    [] AlreadyHandled(e.innerId, handledIds) -> "handled"
    [] OTHER                                 -> "pass"

\* Lines 234-285: the step that drops the event, "pass" when none does.
Pipeline(e, oldest, t, handledIds) ==
  CASE e.kind # EphemeralGiftWrapKind        -> "kind"
    [] ~e.sealDecrypts                       -> "seal decrypt"
    [] e.sealKind # SealKind                 -> "seal kind"
    [] ~e.sealVerifies                       -> "signature"
    [] ~e.innerDecrypts                      -> "inner decrypt"
    [] e.innerKind # HttpResponseKind        -> "inner kind"
    [] e.innerPubkey # e.sealPubkey          -> "pubkey"
    [] ~(e.innerCreatedAtIsNumber /\ e.innerIdIsString /\ e.innerContentIsString)
                                             -> "format"
    [] TooOld(e.innerCreatedAt, oldest)      -> "old"
    [] TooNew(e.innerCreatedAt, t)           -> "future"
    [] AlreadyHandled(e.innerId, handledIds) -> "handled"
    [] OTHER                                 -> "pass"

\* Lines 287-311: the shape of the parsed response message.
ShapeValid(e) ==
  /\ e.contentIsObject
  /\ e.idShape = "string"
  /\ e.partIndexIsSafeInteger /\ e.partIndex >= 0
  /\ e.partsIsSafeInteger /\ e.parts >= 1
  /\ e.bodyBase64IsString
  /\ e.partIndex = 0 => e.statusIsSafeInteger /\ e.headersIsStringMap

\* The key made of the message id alone.
IdOnly(id, pubkey) == <<id, "">>

\* responseFullId, line 318 (and fullId, line 520).
FullId(id, pubkey) == <<id, pubkey>>

MapPut(f, k, v) == [x \in DOMAIN f \cup {k} |-> IF x = k THEN v ELSE f[x]]

MapDelete(f, k) == [x \in DOMAIN f \ {k} |-> f[x]]

\* The inner id recorded only once the message has been validated.
RecordedAfterValidation(handled, e, verdict) ==
  IF verdict = "pass" /\ ShapeValid(e)
  THEN MapPut(handled, e.innerId, e.innerCreatedAt) ELSE handled

\* Line 286: handledResponseIds.set(unsignedResponse.id, created_at), reached
\* when no check of lines 234-285 returned.
Recorded(handled, e, verdict) ==
  IF verdict = "pass" THEN MapPut(handled, e.innerId, e.innerCreatedAt) ELSE handled

\* Lines 324-355, for an event that found its pending entry.
Route(e) ==
  LET key   == FullId(e.messageId, e.sealPubkey)
      entry == pendingResponses[key]
      r     == entry.response
      msgs  == MapSet(entry.responseMessages, StoredMessage(e))
      first == MapIndex(msgs, 0)
      ok    == first # 0 /\ CanWriteHead(res[r], msgs[first].status)
  IN  IF Len(msgs) < e.parts
      THEN /\ pendingResponses' =
                [pendingResponses EXCEPT ![key].responseMessages = msgs]
           /\ UNCHANGED <<timer, assembled, res, cachedRelays>>
      ELSE /\ pendingResponses' = MapDelete(pendingResponses, key)
           /\ timer' = [timer EXCEPT ![r] = IF @ = "armed" THEN "cleared" ELSE @]
           /\ assembled' = [assembled EXCEPT ![r] =
                [done |-> TRUE, responseMessages |-> msgs, parts |-> e.parts]]
           /\ res' = IF ok
                     THEN [res EXCEPT ![r] =
                             Written("tunneled", msgs[first].status, msgs[first].headers,
                                     "", Base64Decode(JoinBodies(msgs, 0, e.parts)))]
                     ELSE res
           /\ cachedRelays' = onClose(cachedRelays, r, maxCachedRelays)

\* The subscription delivers e and its alreadyHaveEvent hook (line 361) lets
\* it through: onevent(e), lines 230-359.
onevent(e) ==
  /\ ~crashed
  /\ e.id \notin DOMAIN handledEventTimes
  /\ handledEventTimes' = MapPut(handledEventTimes, e.id, e.created_at)
  /\ pipelineRuns' = MapPut(pipelineRuns, e.id,
                           IF e.id \in DOMAIN pipelineRuns
                           THEN pipelineRuns[e.id] + 1 ELSE 1)
  /\ LET verdict == Pipeline(e, oldestTime, now, DOMAIN handledResponseIds)
         inner   == <<e.innerId, e.innerCreatedAt>>
     IN  /\ handledResponseIds' = Recorded(handledResponseIds, e, verdict)
         /\ responseRuns' =
              IF verdict = "pass"
              THEN MapPut(responseRuns, inner,
                          IF inner \in DOMAIN responseRuns
                          THEN responseRuns[inner] + 1 ELSE 1)
              ELSE responseRuns
         /\ IF verdict = "pass" /\ ShapeValid(e)
               /\ FullId(e.messageId, e.sealPubkey) \in DOMAIN pendingResponses
            THEN Route(e)
            ELSE UNCHANGED <<pendingResponses, timer, assembled, res, cachedRelays>>
  /\ UNCHANGED <<req, socket, published, crashed>>
  /\ UNCHANGED <<configVars, clockVars, segVars>>

\* The subscription's alreadyHaveEvent hook (line 361) answers true: the
\* event never reaches onevent.
AlreadyHaveEvent(e) ==
  /\ ~crashed
  /\ e.id \in DOMAIN handledEventTimes
  /\ UNCHANGED vars

----------------------------------------------------------------------------
(* Egress segmentation: req.on('end'), lines 556-584                       *)

ChunkSize == 32768

\* A slice whose end is taken as inclusive: one character short.
SliceBoundsShort(len, start, end) == <<Min(start, len), Min(end - 1, len)>>

\* String.prototype.slice(start, end) on a string of length len: the
\* zero-based bounds, clamped to the string.
SliceBounds(len, start, end) == <<Min(start, len), Min(end, len)>>

\* The loop with its test written <= : one chunk too many at a full last chunk.
RECURSIVE ChunkLoopInclusive(_, _, _)
ChunkLoopInclusive(len, partIndex, acc) ==
  IF partIndex * 32768 <= len
  THEN ChunkLoopInclusive(len, partIndex + 1,
                          Append(acc, <<<<Min(partIndex * 32768, len),
                                          Min((partIndex + 1) * 32768, len)>>,
                                        partIndex>>))
  ELSE acc

\* The loop of lines 563-565 on a string of length len: the slice bounds of
\* every chunk pushed, with its partIndex.
RECURSIVE ChunkLoop(_, _, _)
ChunkLoop(len, partIndex, acc) ==
  IF partIndex * ChunkSize < len
  THEN ChunkLoop(len, partIndex + 1,
                 Append(acc, <<SliceBounds(len, partIndex * ChunkSize,
                                           (partIndex + 1) * ChunkSize),
                               partIndex>>))
  ELSE acc

\* Lines 559-566: [slice bounds, partIndex] of every chunk.
ChunkBounds(len) ==
  IF len = 0 THEN << <<SliceBounds(0, 0, 0), 0>> >> ELSE ChunkLoop(len, 0, <<>>)

\* Lines 559-566 on the string itself: bodyBase64Chunks, [chunk, partIndex].
Segment(s) ==
  LET bounds == ChunkBounds(Len(s))
  IN  AsSeq([k \in 1..Len(bounds) |->
               <<SubSeq(s, bounds[k][1][1] + 1, bounds[k][1][2]), bounds[k][2]>>],
            Len(bounds))

\* Lines 569-573: the RequestMessage of one chunk (the fields every part has).
RequestMessage(id, chunks, k) ==
  [id |-> id, partIndex |-> chunks[k][2], parts |-> Len(chunks),
   bodyBase64 |-> chunks[k][1]]

----------------------------------------------------------------------------
(* HTTP gateway: the request handler, lines 428-556                        *)

NormalizeThrows(url) == url = "bad"

\* Lines 456-457 without the filter of line 458.
HintRelaysUnfiltered(relays, initial) ==
  AsSeq([i \in 1..Len(relays) |-> NormalizeURL(relays[i])], Len(relays))

\* Lines 456-458: the nprofile's relays, normalized, without the initial ones.
HintRelays(relays, initial) ==
  LET normalized == [i \in 1..Len(relays) |-> NormalizeURL(relays[i])]
      NotInitial(u) == \A j \in 1..Len(initial) : initial[j] # u
  IN  SelectSeq(AsSeq(normalized, Len(relays)), NotInitial)

\* cachedRelays.find(({relay}) => relay.url === relayUrl): its index, 0 if none.
FindRelay(cached, url) ==
  LET idx == {i \in 1..Len(cached) : cached[i].url = url}
  IN  IF idx = {} THEN 0 ELSE CHOOSE i \in idx : \A j \in idx : i <= j

\* Lines 466-472: the iterations of the hint loop from hint i on that find
\* their relay cached: each pins id and moves the entry to the MRU end. The
\* loop stops at the first hint that has to be connected (line 475), or past
\* the last hint.
RECURSIVE HintLoop(_, _, _, _)
HintLoop(cached, hints, i, id) ==
  IF i > Len(hints) \/ FindRelay(cached, hints[i]) = 0
  THEN [cachedRelays |-> cached, hintIndex |-> i]
  ELSE LET k == FindRelay(cached, hints[i])
       IN  HintLoop(Append(RemoveAt(cached, k),
                           [cached[k] EXCEPT !.requestIds = @ \cup {id}]),
                    hints, i + 1, id)

\* Lines 433-436 without line 442.
CopiedHeadersKept(names, keep, fixed) == names \ (IF keep THEN {} ELSE {"host"})

\* Lines 433-436 and 442: the headers copied from the request.
CopiedHeaders(names, keep, fixed) ==
  (names \ (IF keep THEN {} ELSE {"host"}))
    \ (IF fixed # "" THEN {} ELSE {"x-nostr-destination"})

\* Lines 438-519: how the destination is resolved: "ok", or the 400 written.
Resolution(xnd, fixed, initial) ==
  CASE fixed # ""                        -> "ok"
    [] xnd.kind = "absent"               -> "Missing X-Nostr-Destination header"
    [] xnd.kind = "nprofile" /\ \E i \in 1..Len(xnd.relays) :
                                   NormalizeThrows(xnd.relays[i])
                                         -> "Malformed header: X-Nostr-Destination"
    [] xnd.kind = "nprofile"             -> "ok"
    [] initial = <<>>                    -> "no default relays"
    [] xnd.kind = "npub"                 -> "ok"
    [] OTHER                             -> "Malformed header: X-Nostr-Destination"

\* Lines 459-465: the 400 of an nprofile without usable hints when there is
\* no initial relay. The handler does not return after writing it.
NoRelayAtAll(xnd, fixed, initial) ==
  /\ fixed = ""
  /\ xnd.kind = "nprofile"
  /\ HintRelays(xnd.relays, initial) = <<>>
  /\ initial = <<>>

\* Lines 552-556 alone: the body listeners without the pending entry and its
\* timer.
ListenOnly(r, locals, cached) ==
  /\ req' = [req EXCEPT ![r] = [locals EXCEPT !.pc = "body"]]
  /\ cachedRelays' = cached
  /\ UNCHANGED <<pendingResponses, timer>>

\* Lines 520-556 once the hint loop is over: the pending entry, its timer, and
\* the body listeners.
Register(r, locals, cached) ==
  /\ pendingResponses' =
       MapPut(pendingResponses, FullId(r, locals.destinationPublicKey),
              [responseMessages |-> <<>>, response |-> r])
  /\ timer' = [timer EXCEPT ![r] = "armed"]
  /\ req' = [req EXCEPT ![r] = [locals EXCEPT !.pc = "body"]]
  /\ cachedRelays' = cached

\* Lines 466-499 from hint i on, then lines 520-556 unless the loop suspends
\* in Relay.connect.
Continue(r, locals, cached, i) ==
  LET loop == HintLoop(cached, locals.hintRelays, i, r)
  IN  IF loop.hintIndex > Len(locals.hintRelays)
      THEN Register(r, [locals EXCEPT !.hintIndex = loop.hintIndex],
                    loop.cachedRelays)
      ELSE /\ req' = [req EXCEPT ![r] =
                        [locals EXCEPT !.pc = "connect", !.hintIndex = loop.hintIndex]]
           /\ cachedRelays' = loop.cachedRelays
           /\ UNCHANGED <<pendingResponses, timer>>

\* A request arrives: the handler runs from line 429 to its first suspension.
HandleRequest(r, in) ==
  /\ ~crashed
  /\ startup.pc = "listening"
  /\ req[r].pc = "none"
  /\ \A q \in RequestIds : q < r => req[q].pc # "none"
  /\ socket' = [socket EXCEPT ![r] = "open"]
  /\ LET verdict == Resolution(in.xnd, fixedDestinationPublicKey, initialRelayUrls)
         locals  == [pc |-> "none",
                     headers |-> CopiedHeaders(in.headers, keepHost,
                                               fixedDestinationPublicKey),
                     destinationPublicKey |->
                       IF fixedDestinationPublicKey # ""
                       THEN fixedDestinationPublicKey ELSE in.xnd.pubkey,
                     hintRelays |->
                       IF fixedDestinationPublicKey = "" /\ in.xnd.kind = "nprofile"
                       THEN HintRelays(in.xnd.relays, initialRelayUrls) ELSE <<>>,
                     hintIndex |-> 1, bodyLength |-> in.bodyLength, parts |-> 0,
                     partIndex |-> 0, inflight |-> {}, targets |-> <<>>,
                     targetIndex |-> 0, log |-> <<>>]
     IN  IF verdict # "ok"
         THEN /\ res' = [res EXCEPT ![r] = Written("400", 400, "", verdict, <<>>)]
              /\ req' = [req EXCEPT ![r] = [locals EXCEPT !.pc = "rejected"]]
              /\ UNCHANGED <<pendingResponses, timer, cachedRelays>>
         ELSE /\ res' = IF NoRelayAtAll(in.xnd, fixedDestinationPublicKey,
                                        initialRelayUrls)
                        THEN [res EXCEPT ![r] =
                                Written("400", 400, "", "no default relays, no hints", <<>>)]
                        ELSE res
              /\ Continue(r, locals, cachedRelays, 1)
  /\ UNCHANGED <<handledEventTimes, handledResponseIds, pipelineRuns, responseRuns, assembled, published, crashed>>
  /\ UNCHANGED <<configVars, clockVars, segVars>>

\* A subscription whose filter keeps the since of the first subscription.
SubscribedSinceStart(s, by) == [since |-> SinceOf(StartTime), by |-> by]

\* The handle relay.subscribe returns: the since of its filter and the call
\* that made it, "connect" for lines 476-485 and "rewind" for lines 385-394.
Subscribed(s, by) == [since |-> s, by |-> by]

\* Relay.connect of line 475 settles: lines 476-497, then the loop goes on.
RelayConnected(r, connected) ==
  /\ ~crashed
  /\ req[r].pc = "connect"
  /\ LET url    == req[r].hintRelays[req[r].hintIndex]
         cached == IF connected
                   THEN cleanupCachedRelays(
                          Append(cachedRelays,
                                 [url |-> url, requestIds |-> {r},
                                  subscription |-> Subscribed(SinceOf(now), "connect")]),
                          maxCachedRelays)
                   ELSE cachedRelays
     IN  Continue(r, req[r], cached, req[r].hintIndex + 1)
  /\ UNCHANGED <<handledEventTimes, handledResponseIds, pipelineRuns, responseRuns, assembled, res, socket,
                 published, crashed>>
  /\ UNCHANGED <<configVars, clockVars, segVars>>

\* The timer callback without its write.
TimedOutSilently(response) == response

\* Lines 540-545: the timer callback's write; a writeHead that throws is caught.
TimedOut(response) ==
  IF response.ended THEN response
  ELSE Written("timeout", 500, "", "Timed out", <<>>)

\* The timer of lines 538-547 fires.
TimeoutFires(r) ==
  /\ ~crashed
  /\ timer[r] = "armed"
  /\ timer' = [timer EXCEPT ![r] = "fired"]
  /\ res' = [res EXCEPT ![r] = TimedOut(@)]
  /\ cachedRelays' = onClose(cachedRelays, r, maxCachedRelays)
  /\ UNCHANGED <<handledEventTimes, handledResponseIds, pipelineRuns, responseRuns, pendingResponses, assembled,
                 req, socket, published, crashed>>
  /\ UNCHANGED <<configVars, clockVars, segVars>>

\* The HTTP client closes its connection. The handler registers no 'close'
\* listener: nothing but the socket changes.
ClientDisconnect(r) ==
  /\ ~crashed
  /\ socket[r] = "open"
  /\ socket' = [socket EXCEPT ![r] = "closed"]
  /\ UNCHANGED <<handledEventTimes, handledResponseIds, pipelineRuns, responseRuns, cachedRelays, pendingResponses,
                 timer, assembled, req, res, published, crashed>>
  /\ UNCHANGED <<configVars, clockVars, segVars>>

----------------------------------------------------------------------------
(* Egress: req.on('end'), lines 556-666                                    *)

\* 'end' is emitted: lines 558-566 on a body of req[r].bodyLength bytes.
RequestEnd(r) ==
  /\ ~crashed
  /\ req[r].pc = "body"
  /\ socket[r] = "open"
  /\ req' = [req EXCEPT ![r].pc = "publish",
                        ![r].parts = Len(ChunkBounds(Base64Length(req[r].bodyLength))),
                        ![r].partIndex = 0]
  /\ UNCHANGED <<handledEventTimes, handledResponseIds, pipelineRuns, responseRuns, cachedRelays, pendingResponses,
                 timer, assembled, res, socket, published, crashed>>
  /\ UNCHANGED <<configVars, clockVars, segVars>>

\* The relays one part is published to: every initial relay through the pool
\* (lines 637-649) and every cached relay (lines 651-658).
PublishTargets(initial, cached) ==
  {initial[i] : i \in 1..Len(initial)} \cup {cached[i].url : i \in 1..Len(cached)}

\* Lines 616-618 on the URLs used here: new URL(relay) has a username, a
\* password or a query string.
Unsafe(url) == url \in {"wss://u:p@s", "wss://q/?k=v", "wss://:p@h4"}

\* Lines 615-619 without the filter.
AllRelays(initial, hints) == initial \o hints

\* Lines 615-619: safeRelays.
SafeRelays(initial, hints) ==
  LET Safe(url) == ~Unsafe(url)
  IN  SelectSeq(initial \o hints, Safe)

\* Array.prototype.slice(start, end) for 0 <= start <= end.
Slice(seq, start, end) == SubSeq(seq, start + 1, Min(end, Len(seq)))

\* Lines 624-627 with the relays tag always present.
TagsWithRelays(destination, safe) ==
  << <<"p", destination>> \o Slice(safe, 0, 1),
     <<"relays">> \o Slice(safe, 1, Len(safe)) >>

\* Lines 624-627: the tags of the gift wrap.
Tags(destination, safe) ==
  << <<"p", destination>> \o Slice(safe, 0, 1) >>
    \o (IF Len(safe) > 1 THEN << <<"relays">> \o Slice(safe, 1, Len(safe)) >>
        ELSE <<>>)

\* Lines 569-584 and 620-634: what the gift wrap of part partIndex carries.
GiftWrap(r, locals, partIndex, url) ==
  [id |-> r, partIndex |-> partIndex, parts |-> locals.parts,
   hasHeaders |-> partIndex = 0,
   headers |-> IF partIndex = 0 THEN locals.headers ELSE {},
   destination |-> locals.destinationPublicKey,
   tags |-> Tags(locals.destinationPublicKey,
                 SafeRelays(initialRelayUrls, locals.hintRelays)),
   to |-> url]

\* One iteration of the loop of lines 567-660: the part req[r].partIndex is
\* built and published; the publishes to the relays in failed throw and are
\* logged (lines 645-647, 655-657).
PublishPart(r, failed) ==
  /\ ~crashed
  /\ req[r].pc = "publish"
  /\ failed \subseteq PublishTargets(initialRelayUrls, cachedRelays)
  /\ published' = published \cup
       {GiftWrap(r, req[r], req[r].partIndex, url) :
          url \in PublishTargets(initialRelayUrls, cachedRelays) \ failed}
  /\ req' = [req EXCEPT ![r].partIndex = @ + 1,
                        ![r].pc = IF req[r].partIndex + 1 >= req[r].parts
                                  THEN "done" ELSE "publish"]
  /\ UNCHANGED <<handledEventTimes, handledResponseIds, pipelineRuns, responseRuns, cachedRelays, pendingResponses,
                 timer, assembled, res, socket, crashed>>
  /\ UNCHANGED <<configVars, clockVars, segVars>>

\* Building a part throws (lines 558-634): the catch of lines 661-665 writes
\* 500 'Failed'. Its writeHead throws when the response was already sent, and
\* nothing catches that.
EgressFails(r) ==
  /\ ~crashed
  /\ req[r].pc = "publish"
  /\ req' = [req EXCEPT ![r].pc = "done"]
  /\ IF res[r].ended
     THEN crashed' = TRUE /\ res' = res
     ELSE /\ res' = [res EXCEPT ![r] = Written("failed", 500, "", "Failed", <<>>)]
          /\ crashed' = crashed
  /\ UNCHANGED <<handledEventTimes, handledResponseIds, pipelineRuns, responseRuns, cachedRelays, pendingResponses,
                 timer, assembled, socket, published>>
  /\ UNCHANGED <<configVars, clockVars, segVars>>

----------------------------------------------------------------------------
(* Egress, publish by publish: lines 567-660                               *)

\* The publishes of one request as they start and settle: req[r].log gets a
\* record when a publish starts and when it settles; slot is 0 for a publish
\* through the pool and the position in the iterated list for a cached relay.
LogEntry(ev, part, url, slot) == [ev |-> ev, part |-> part, url |-> url, slot |-> slot]

\* for (const relay of cachedRelays), line 651: the list the loop iterates.
RelayUrls(cached) == AsSeq([i \in 1..Len(cached) |-> cached[i].url], Len(cached))

\* Promise.race in place of Promise.all.
AnySettled(inflight) == TRUE

\* await Promise.all(...), line 637: every publish to an initial relay settled.
AllSettled(inflight) == inflight = {}

RECURSIVE StartPart(_, _, _)
RECURSIVE StartCached(_, _, _)

\* Lines 567-649 for part k: the part is built and pool.publish is called for
\* every initial relay (line 644); without initial relays the loop of line 651
\* starts at once; after the last part the listener returns.
StartPart(locals, k, cached) ==
  IF k >= locals.parts THEN [locals EXCEPT !.pc = "done", !.partIndex = k]
  ELSE IF initialRelayUrls # <<>>
  THEN [locals EXCEPT
          !.pc = "pool", !.partIndex = k,
          !.inflight = {initialRelayUrls[i] : i \in 1..Len(initialRelayUrls)},
          !.log = @ \o AsSeq([i \in 1..Len(initialRelayUrls) |->
                                LogEntry("start", k, initialRelayUrls[i], 0)],
                             Len(initialRelayUrls))]
  ELSE StartCached([locals EXCEPT !.partIndex = k, !.targets = RelayUrls(cached)],
                   1, cached)

\* Lines 651-658 from the i-th relay of the iterated list on: relay.publish is
\* called (line 654); after the last relay the next part begins.
StartCached(locals, i, cached) ==
  IF i > Len(locals.targets) THEN StartPart(locals, locals.partIndex + 1, cached)
  ELSE [locals EXCEPT
          !.pc = "cached", !.targetIndex = i,
          !.log = Append(@, LogEntry("start", locals.partIndex, locals.targets[i], i))]

\* The loop goes on only after a publish that succeeded: a rejection leaves
\* the try block.
Propagated(ok) == ok

\* Lines 642-647 and 652-657: each publish is awaited inside its own try, and
\* the catch logs the rejection; the loop goes on whether the publish
\* succeeded or not.
Swallowed(ok) == TRUE

\* An error reaches the catch of lines 661-665: the loop is over and 500
\* 'Failed' is written; the writeHead of line 663 throws when the response
\* was already sent, and nothing catches that.
Thrown(r, locals) ==
  /\ req' = [req EXCEPT ![r] = [locals EXCEPT !.pc = "done"]]
  /\ IF res[r].ended
     THEN crashed' = TRUE /\ res' = res
     ELSE /\ res' = [res EXCEPT ![r] = Written("failed", 500, "", "Failed", <<>>)]
          /\ crashed' = crashed

\* The 'end' listener runs up to its first await (after RequestEnd).
PublishBegins(r) ==
  /\ ~crashed
  /\ req[r].pc = "publish"
  /\ req' = [req EXCEPT ![r] = StartPart(req[r], 0, cachedRelays)]
  /\ UNCHANGED <<handledEventTimes, handledResponseIds, pipelineRuns, responseRuns, cachedRelays, pendingResponses,
                 timer, assembled, res, socket, published, crashed>>
  /\ UNCHANGED <<configVars, clockVars, segVars>>

\* pool.publish to the initial relay url settles (lines 644-647): a rejection
\* is caught and logged. Once all have settled the cached relays follow.
PoolSettles(r, url, ok) ==
  /\ ~crashed
  /\ req[r].pc = "pool"
  /\ url \in req[r].inflight
  /\ LET left   == req[r].inflight \ {url}
         logged == [req[r] EXCEPT
                      !.inflight = left,
                      !.log = Append(@, LogEntry(IF ok THEN "ok" ELSE "failed",
                                                 req[r].partIndex, url, 0))]
     IN  IF Swallowed(ok)
         THEN /\ req' = [req EXCEPT ![r] =
                   IF AllSettled(left)
                   THEN StartCached([logged EXCEPT !.targets = RelayUrls(cachedRelays)],
                                    1, cachedRelays)
                   ELSE logged]
              /\ UNCHANGED <<res, crashed>>
         ELSE Thrown(r, logged)
  /\ published' = IF ok
                  THEN published \cup {GiftWrap(r, req[r], req[r].partIndex, url)}
                  ELSE published
  /\ UNCHANGED <<handledEventTimes, handledResponseIds, pipelineRuns, responseRuns, cachedRelays, pendingResponses,
                 timer, assembled, socket>>
  /\ UNCHANGED <<configVars, clockVars, segVars>>

\* relay.publish to the current cached relay settles (lines 654-657): a
\* rejection is caught and logged; a relay closed in the meantime rejects.
CachedSettles(r, ok) ==
  /\ ~crashed
  /\ req[r].pc = "cached"
  /\ LET url    == req[r].targets[req[r].targetIndex]
         logged == [req[r] EXCEPT
                      !.log = Append(@, LogEntry(IF ok THEN "ok" ELSE "failed",
                                                 req[r].partIndex, url,
                                                 req[r].targetIndex))]
     IN  /\ ok => \E i \in 1..Len(cachedRelays) : cachedRelays[i].url = url
         /\ IF Swallowed(ok)
            THEN /\ req' = [req EXCEPT ![r] =
                      StartCached(logged, req[r].targetIndex + 1, cachedRelays)]
                 /\ UNCHANGED <<res, crashed>>
            ELSE Thrown(r, logged)
         /\ published' = IF ok
                         THEN published \cup {GiftWrap(r, req[r], req[r].partIndex, url)}
                         ELSE published
  /\ UNCHANGED <<handledEventTimes, handledResponseIds, pipelineRuns, responseRuns, cachedRelays, pendingResponses,
                 timer, assembled, socket>>
  /\ UNCHANGED <<configVars, clockVars, segVars>>

----------------------------------------------------------------------------
(* Inputs                                                                  *)

\* The startup configurations checked.
Configurations ==
  { [relays |-> <<"wss://a/", "wss://a">>, destination |-> "", keepHost |-> FALSE,
     maxCachedRelays |-> 1],
    [relays |-> <<"wss://a">>, destination |-> "DST", keepHost |-> TRUE,
     maxCachedRelays |-> 1],
    [relays |-> <<>>, destination |-> "", keepHost |-> FALSE,
     maxCachedRelays |-> 1] }

\* X-Nostr-Destination header values.
XndValues ==
  { [kind |-> "absent", pubkey |-> "", relays |-> <<>>],
    [kind |-> "malformed", pubkey |-> "", relays |-> <<>>],
    [kind |-> "npub", pubkey |-> "DST", relays |-> <<>>],
    [kind |-> "nprofile", pubkey |-> "DST", relays |-> <<>>],
    [kind |-> "nprofile", pubkey |-> "DST", relays |-> <<"wss://h1">>],
    [kind |-> "nprofile", pubkey |-> "DST", relays |-> <<"wss://a/", "wss://h2/">>],
    [kind |-> "nprofile", pubkey |-> "DST", relays |-> <<"bad">>] }

RequestHeaders(xnd) ==
  {"host", "accept"} \cup (IF xnd.kind = "absent" THEN {} ELSE {"x-nostr-destination"})

\* Body lengths: 24577 bytes encode to 32772 base64 characters, two parts.
RequestBodyLengths == {0, 24577}

RequestInputs ==
  { [xnd |-> x, headers |-> RequestHeaders(x), bodyLength |-> n] :
      x \in XndValues, n \in RequestBodyLengths }

MaxEvents == 3
MaxPartIndex == 1
MaxParts == 2

\* An id not in used: ids are opaque and only compared, so the smallest
\* unused one stands for any fresh id.
FreshId(used) == CHOOSE n \in 1..(Cardinality(used) + 1) :
                   n \notin used /\ \A m \in 1..(n - 1) : m \in used

\* base64 strings: "aGkh" and "QQ==".
ResponseBodies == { <<26, 6, 36, 33>>, <<16, 16, 64, 64>> }

\* A kind-21059 event wrapping a well-formed response part signed by pubkey.
ResponseEvent(outerId, innerId, createdAt, pubkey, id, partIndex, parts, status, b) ==
  [id |-> outerId, kind |-> EphemeralGiftWrapKind, created_at |-> createdAt,
   sealDecrypts |-> TRUE, sealKind |-> SealKind, sealPubkey |-> pubkey,
   sealVerifies |-> TRUE, innerDecrypts |-> TRUE, innerKind |-> HttpResponseKind,
   innerPubkey |-> pubkey, innerCreatedAtIsNumber |-> TRUE,
   innerCreatedAt |-> createdAt, innerIdIsString |-> TRUE, innerId |-> innerId,
   innerContentIsString |-> TRUE, contentIsObject |-> TRUE, messageId |-> id,
   idShape |-> "string", partIndex |-> partIndex, partIndexIsSafeInteger |-> TRUE,
   parts |-> parts, partsIsSafeInteger |-> TRUE, bodyBase64 |-> b,
   bodyBase64IsString |-> TRUE, status |-> status,
   statusIsSafeInteger |-> partIndex = 0,
   headers |-> IF partIndex = 0 THEN "content-type: text/plain" ELSE "",
   headersIsStringMap |-> partIndex = 0]

\* e with one thing wrong, one event per check of lines 234-311.
Defects(e) ==
  { [e EXCEPT !.kind = 1],
    [e EXCEPT !.sealDecrypts = FALSE],
    [e EXCEPT !.sealKind = 1],
    [e EXCEPT !.sealVerifies = FALSE],
    [e EXCEPT !.innerDecrypts = FALSE],
    [e EXCEPT !.innerKind = HttpRequestKind],
    [e EXCEPT !.innerPubkey = "OTHER"],
    [e EXCEPT !.innerCreatedAtIsNumber = FALSE],
    [e EXCEPT !.innerIdIsString = FALSE],
    [e EXCEPT !.innerContentIsString = FALSE],
    [e EXCEPT !.contentIsObject = FALSE],
    [e EXCEPT !.idShape = "empty"],
    [e EXCEPT !.idShape = "longer than 100"],
    [e EXCEPT !.idShape = "not a string"],
    [e EXCEPT !.partIndexIsSafeInteger = FALSE],
    [e EXCEPT !.partIndex = -1],
    [e EXCEPT !.partsIsSafeInteger = FALSE],
    [e EXCEPT !.parts = 0],
    [e EXCEPT !.bodyBase64IsString = FALSE],
    [e EXCEPT !.statusIsSafeInteger = FALSE],
    [e EXCEPT !.headersIsStringMap = FALSE] }

\* The id of an event a subscription delivers for the first time.
FreshOuterIds ==
  IF Cardinality(DOMAIN handledEventTimes) < MaxEvents
  THEN {FreshId(DOMAIN handledEventTimes)} ELSE {}

FreshInnerId == FreshId(DOMAIN handledResponseIds)

\* The request ids a peer can know: those of the gift wraps published so far
\* (a request id is a random UUID).
KnownIds == {p.id : p \in published}

\* The complete one-part responses of the destination.
PlainEvents ==
  { ResponseEvent(o, FreshInnerId, now, "DST", id, 0, 1, 200, <<26, 6, 36, 33>>) :
      o \in FreshOuterIds, id \in KnownIds }

\* Well-formed response parts of the destination, inside the replay window.
PartEvents ==
  { ResponseEvent(o, FreshInnerId, now, "DST", id, partIndex, parts, status, b) :
      o \in FreshOuterIds, id \in KnownIds, partIndex \in 0..MaxPartIndex,
      parts \in 1..MaxParts, status \in {200, 0}, b \in ResponseBodies }

\* A complete one-part response: signed by another key, for the id of no
\* request (0), or with the id of an inner event handled before.
StrayEvents ==
  { ResponseEvent(o, FreshInnerId, now, "EVIL", id, 0, 1, 200, <<26, 6, 36, 33>>) :
      o \in FreshOuterIds, id \in KnownIds }
  \cup
  { ResponseEvent(o, FreshInnerId, now, "DST", 0, 0, 1, 200, <<26, 6, 36, 33>>) :
      o \in FreshOuterIds }
  \cup
  { ResponseEvent(o, i, now, "DST", id, 0, 1, 200, <<26, 6, 36, 33>>) :
      o \in FreshOuterIds, i \in DOMAIN handledResponseIds, id \in KnownIds }

\* A complete one-part response with one thing wrong, or outside the window.
BadEvents ==
  UNION { Defects(ResponseEvent(o, FreshInnerId, now, "DST", id, 0, 1, 200,
                                <<26, 6, 36, 33>>))
            \cup { ResponseEvent(o, FreshInnerId, t, "DST", id, 0, 1, 200,
                                 <<26, 6, 36, 33>>) :
                     t \in {oldestTime - 1, now + 600001} } :
          o \in FreshOuterIds, id \in KnownIds }

Events == PartEvents \cup StrayEvents \cup BadEvents

\* An event a relay delivers again.
SeenEvents ==
  { ResponseEvent(o, FreshInnerId, now, "DST", 0, 0, 1, 200, <<26, 6, 36, 33>>) :
      o \in DOMAIN handledEventTimes }

\* Every publish of a part succeeds, or every one fails.
PublishOutcomes == { {}, PublishTargets(initialRelayUrls, cachedRelays) }

----------------------------------------------------------------------------
(* The gateway: requests under every configuration, plain responses        *)

Init ==
  /\ \E cfg \in Configurations : Started(cfg, StartTime)
  /\ SegIdle

Next ==
  \/ \E r \in RequestIds, in \in RequestInputs : HandleRequest(r, in)
  \/ \E r \in RequestIds, connected \in BOOLEAN : RelayConnected(r, connected)
  \/ \E r \in RequestIds : RequestEnd(r)
  \/ \E r \in RequestIds, failed \in PublishOutcomes : PublishPart(r, failed)
  \/ \E r \in RequestIds : EgressFails(r)
  \/ \E r \in RequestIds : TimeoutFires(r)
  \/ \E e \in PlainEvents : onevent(e)

Spec == Init /\ [][Next]_vars

----------------------------------------------------------------------------
(* Ingress: requests to an npub under one configuration, every response    *)

PlainConfiguration ==
  [relays |-> <<"wss://a">>, destination |-> "", keepHost |-> FALSE,
   maxCachedRelays |-> 1]

PlainRequest ==
  [xnd |-> [kind |-> "npub", pubkey |-> "DST", relays |-> <<>>],
   headers |-> {"host", "accept", "x-nostr-destination"}, bodyLength |-> 0]

IngressInit ==
  /\ Started(PlainConfiguration, StartTime)
  /\ SegIdle

IngressNext ==
  \/ \E r \in RequestIds : HandleRequest(r, PlainRequest)
  \/ \E r \in RequestIds : RequestEnd(r)
  \/ \E r \in RequestIds : PublishPart(r, {})
  \/ \E r \in RequestIds : TimeoutFires(r)
  \/ \E r \in RequestIds : ClientDisconnect(r)
  \/ \E e \in Events : onevent(e)
  \/ \E e \in SeenEvents : AlreadyHaveEvent(e)

SpecIngress == IngressInit /\ [][IngressNext]_vars

----------------------------------------------------------------------------
(* Ingress for a single request, every response                            *)

SingleNext ==
  \/ HandleRequest(1, PlainRequest)
  \/ RequestEnd(1)
  \/ PublishPart(1, {})
  \/ TimeoutFires(1)
  \/ ClientDisconnect(1)
  \/ \E e \in Events : onevent(e)
  \/ \E e \in SeenEvents : AlreadyHaveEvent(e)

SpecSingle == IngressInit /\ [][SingleNext]_vars

\* setTimeout (line 538) runs its callback unless clearTimeout (line 329)
\* came first.
SpecSingleFair == SpecSingle /\ WF_vars(TimeoutFires(1))

----------------------------------------------------------------------------
(* Gaps: one request, two-part responses whose parts are numbered 0 and 2  *)

GapEvents ==
  { ResponseEvent(o, FreshInnerId, now, "DST", id, partIndex, 2, 200, b) :
      o \in FreshOuterIds, id \in KnownIds, partIndex \in {0, 2},
      b \in ResponseBodies }

GapNext ==
  \/ HandleRequest(1, PlainRequest)
  \/ RequestEnd(1)
  \/ PublishPart(1, {})
  \/ TimeoutFires(1)
  \/ ClientDisconnect(1)
  \/ \E e \in GapEvents : onevent(e)

SpecGaps == IngressInit /\ [][GapNext]_vars

----------------------------------------------------------------------------
(* Replays: one request, response parts and re-wrapped copies of them      *)

\* A response part of the destination in a new gift wrap, with the id of
\* an inner event handled before.
ReplayedEvents ==
  { ResponseEvent(o, i, now, "DST", id, partIndex, parts, 200, b) :
      o \in FreshOuterIds, i \in DOMAIN handledResponseIds, id \in KnownIds,
      partIndex \in 0..MaxPartIndex, parts \in 1..MaxParts, b \in ResponseBodies }

ReplayNext ==
  \/ HandleRequest(1, PlainRequest)
  \/ RequestEnd(1)
  \/ PublishPart(1, {})
  \/ TimeoutFires(1)
  \/ \E e \in PartEvents \cup ReplayedEvents : onevent(e)

SpecReplay == IngressInit /\ [][ReplayNext]_vars

----------------------------------------------------------------------------
(* The relay pool: nprofile requests one after the other, two cached relays *)

PoolConfiguration ==
  [relays |-> <<"wss://a">>, destination |-> "", keepHost |-> FALSE,
   maxCachedRelays |-> 2]

PoolHints ==
  { <<"wss://h1">>, <<"wss://h2">>, <<"wss://h3">>, <<"wss://h1", "wss://h3">>,
    <<"wss://h2", "wss://h1">> }

PoolInputs ==
  { [xnd |-> [kind |-> "nprofile", pubkey |-> "DST", relays |-> h],
     headers |-> {"host", "accept", "x-nostr-destination"}, bodyLength |-> 0] :
      h \in PoolHints }

\* The request was answered by the destination or timed out.
Finished(r) == timer[r] \in {"cleared", "fired"}

\* A request arrives once every earlier one is finished.
PoolArrives(r, in) ==
  /\ \A q \in PoolRequestIds : q < r => Finished(q)
  /\ HandleRequest(r, in)

PoolInit ==
  /\ Started(PoolConfiguration, StartTime)
  /\ SegIdle

PoolNext ==
  \/ \E r \in PoolRequestIds, in \in PoolInputs : PoolArrives(r, in)
  \/ \E r \in PoolRequestIds : RelayConnected(r, TRUE)
  \/ \E r \in PoolRequestIds : RequestEnd(r)
  \/ \E r \in PoolRequestIds : PublishPart(r, {})
  \/ \E r \in PoolRequestIds : TimeoutFires(r)
  \/ \E e \in PlainEvents : onevent(e)

SpecPool == PoolInit /\ [][PoolNext]_vars

----------------------------------------------------------------------------
(* The tags of the gift wrap: relays with credentials or a query string    *)

TagConfigurations ==
  { [relays |-> <<>>, destination |-> "", keepHost |-> FALSE, maxCachedRelays |-> 1],
    [relays |-> <<"wss://u:p@s">>, destination |-> "", keepHost |-> FALSE,
     maxCachedRelays |-> 1],
    [relays |-> <<"wss://a", "wss://q/?k=v", "wss://b">>, destination |-> "",
     keepHost |-> FALSE, maxCachedRelays |-> 1],
    [relays |-> <<"wss://a">>, destination |-> "DST", keepHost |-> FALSE,
     maxCachedRelays |-> 1] }

TagHints ==
  { <<>>, <<"wss://h1">>, <<"wss://:p@h4">>, <<"wss://h1", "wss://:p@h4", "wss://h2">> }

TagInputs ==
  { [xnd |-> [kind |-> "nprofile", pubkey |-> "DST", relays |-> h],
     headers |-> {"host", "accept", "x-nostr-destination"}, bodyLength |-> n] :
      h \in TagHints, n \in RequestBodyLengths }
  \cup
  { [xnd |-> [kind |-> "npub", pubkey |-> "DST", relays |-> <<>>],
     headers |-> {"host", "accept", "x-nostr-destination"}, bodyLength |-> 0] }

TagInit ==
  /\ \E cfg \in TagConfigurations : Started(cfg, StartTime)
  /\ SegIdle

\* One request; every publish succeeds.
TagNext ==
  \/ \E in \in TagInputs : HandleRequest(1, in)
  \/ \E connected \in BOOLEAN : RelayConnected(1, connected)
  \/ RequestEnd(1)
  \/ PublishPart(1, {})
  \/ TimeoutFires(1)

SpecTags == TagInit /\ [][TagNext]_vars

----------------------------------------------------------------------------
(* Response keys: two destinations, responses sealed by either or by a     *)
(* third key                                                               *)

KeyRequests ==
  { [xnd |-> [kind |-> "npub", pubkey |-> k, relays |-> <<>>],
     headers |-> {"host", "accept", "x-nostr-destination"}, bodyLength |-> 0] :
      k \in {"DST", "DS2"} }

\* Well-formed response parts carrying the id of a published request, sealed
\* by one of the destinations or by another key.
KeyEvents ==
  { ResponseEvent(o, FreshInnerId, now, k, id, partIndex, parts, 200,
                  <<26, 6, 36, 33>>) :
      o \in FreshOuterIds, k \in {"DST", "DS2", "EVIL"}, id \in KnownIds,
      partIndex \in 0..MaxPartIndex, parts \in 1..MaxParts }

KeyNext ==
  \/ \E r \in RequestIds, in \in KeyRequests : HandleRequest(r, in)
  \/ \E r \in RequestIds : RequestEnd(r)
  \/ \E r \in RequestIds : PublishPart(r, {})
  \/ \E r \in RequestIds : TimeoutFires(r)
  \/ \E e \in KeyEvents : onevent(e)

SpecKeys == IngressInit /\ [][KeyNext]_vars

----------------------------------------------------------------------------
(* Dropped events: two requests with a hint relay, events that are dropped *)
(* and complete responses                                                  *)

DropRequest ==
  [xnd |-> [kind |-> "nprofile", pubkey |-> "DST", relays |-> <<"wss://h1">>],
   headers |-> {"host", "accept", "x-nostr-destination"}, bodyLength |-> 0]

DropNext ==
  \/ \E r \in RequestIds : HandleRequest(r, DropRequest)
  \/ \E r \in RequestIds : RelayConnected(r, TRUE)
  \/ \E r \in RequestIds : RequestEnd(r)
  \/ \E r \in RequestIds : PublishPart(r, {})
  \/ \E r \in RequestIds : TimeoutFires(r)
  \/ \E e \in PlainEvents \cup StrayEvents \cup BadEvents : onevent(e)

SpecDrops == IngressInit /\ [][DropNext]_vars

----------------------------------------------------------------------------
(* Pins: concurrent nprofile requests, one cached relay allowed            *)

PinNext ==
  \/ \E r \in RequestIds, in \in PoolInputs : HandleRequest(r, in)
  \/ \E r \in RequestIds, connected \in BOOLEAN : RelayConnected(r, connected)
  \/ \E r \in RequestIds : RequestEnd(r)
  \/ \E r \in RequestIds : PublishPart(r, {})
  \/ \E r \in RequestIds : TimeoutFires(r)
  \/ \E e \in PlainEvents : onevent(e)

SpecPins == IngressInit /\ [][PinNext]_vars

\* The promise of Relay.connect (line 475) settles, and setTimeout (line 538)
\* runs its callback unless clearTimeout (line 329) came first.
SpecPinsFair ==
  /\ SpecPins
  /\ \A r \in RequestIds :
       /\ WF_vars(\E connected \in BOOLEAN : RelayConnected(r, connected))
       /\ WF_vars(TimeoutFires(r))

----------------------------------------------------------------------------
(* Publishing: two initial relays, every publish on its own; request 1     *)
(* publishes while request 2 opens another hint relay                      *)

PublishConfiguration ==
  [relays |-> <<"wss://a", "wss://b">>, destination |-> "", keepHost |-> FALSE,
   maxCachedRelays |-> 1]

PublishInputs ==
  { [xnd |-> [kind |-> "nprofile", pubkey |-> "DST", relays |-> h],
     headers |-> {"host", "accept", "x-nostr-destination"}, bodyLength |-> n] :
      h \in { <<>>, <<"wss://h1">> }, n \in RequestBodyLengths }

PublishInit ==
  /\ Started(PublishConfiguration, StartTime)
  /\ SegIdle

PublishNext ==
  \/ \E in \in PublishInputs : HandleRequest(1, in)
  \/ HandleRequest(2, [DropRequest EXCEPT !.xnd.relays = <<"wss://h2">>])
  \/ \E r \in RequestIds : RelayConnected(r, TRUE)
  \/ RequestEnd(1)
  \/ PublishBegins(1)
  \/ \E url \in {"wss://a", "wss://b"}, ok \in BOOLEAN : PoolSettles(1, url, ok)
  \/ \E ok \in BOOLEAN : CachedSettles(1, ok)
  \/ \E r \in RequestIds : TimeoutFires(r)
  \/ \E e \in PlainEvents : onevent(e)

SpecPublish == PublishInit /\ [][PublishNext]_vars

----------------------------------------------------------------------------
(* The clock: the interval of lines 187-194 and the replay window          *)

\* The interval callback that leaves oldestTime alone.
KeptOldestTime(t, oldest) == oldest

\* Line 188: oldestTime = Date.now() / 1000 - 60.
TickedOldestTime(t, oldest) == t - 60000

\* Lines 189-193 with <= for <.
ReapedThroughOldestTime(handled, oldest) ==
  [i \in {j \in DOMAIN handled : ~(handled[j] <= oldest)} |-> handled[i]]

\* Lines 189-193: the handled ids that survive the reaping.
ReapedResponseIds(handled, oldest) ==
  [i \in {j \in DOMAIN handled : ~(handled[j] < oldest)} |-> handled[i]]

\* The interval callback of lines 187-194 runs; setInterval re-arms it
\* 600_000 ms after this run.
OldestTimeTick ==
  /\ ~crashed
  /\ now >= oldestTimeDue
  /\ oldestTime' = TickedOldestTime(now, oldestTime)
  /\ handledResponseIds' =
       ReapedResponseIds(handledResponseIds, TickedOldestTime(now, oldestTime))
  /\ oldestTimeDue' = now + 600000
  /\ UNCHANGED <<now, since, rewindDue, handledEventTimes, pipelineRuns, responseRuns, cachedRelays,
                 pendingResponses, timer, assembled, req, res, socket, published,
                 crashed>>
  /\ UNCHANGED <<configVars, segVars>>

\* How late the event loop may run a due timer callback.
MaxLateness == 300000

\* How long the clock is followed after startup.
MaxElapsed == 4200000

TimeSteps == {300000}

\* Time passes; a due interval callback runs at most MaxLateness late.
AdvanceTime(d) ==
  /\ ~crashed
  /\ now + d <= oldestTimeDue + MaxLateness
  /\ now + d <= StartTime + MaxElapsed
  /\ now' = now + d
  /\ UNCHANGED <<oldestTime, oldestTimeDue, since, rewindDue, coreVars>>
  /\ UNCHANGED <<configVars, segVars>>

\* Complete one-part responses of the destination with created_at at and
\* around both ends of the replay window; the gift wrap carries the same
\* created_at as the inner event.
MaxClockEvents == 2

ClockEvents ==
  { ResponseEvent(o, FreshInnerId, t, "DST", id, 0, 1, 200, <<26, 6, 36, 33>>) :
      o \in IF Cardinality(DOMAIN handledEventTimes) < MaxClockEvents
            THEN FreshOuterIds ELSE {},
      id \in KnownIds,
      t \in {oldestTime - 1000, oldestTime - 1, oldestTime,
             now + 600000, now + 600001, now + 601000} }

ClockInit ==
  /\ Started(PlainConfiguration, StartTime)
  /\ SegIdle

ClockNext ==
  \/ \E d \in TimeSteps : AdvanceTime(d)
  \/ OldestTimeTick
  \/ HandleRequest(1, PlainRequest)
  \/ RequestEnd(1)
  \/ PublishPart(1, {})
  \/ \E e \in ClockEvents : onevent(e)

SpecClock == ClockInit /\ [][ClockNext]_vars

----------------------------------------------------------------------------
(* The replay window and replays: inner events sent again in new gift wraps *)

\* The created_at of the inner events the peers hold: the start, one minute
\* before a first tick that runs on time, and one minute before a late one.
WindowTimes == <<StartTime, StartTime + 540000, StartTime + 840000>>

\* The inner event i, the same id and the same created_at every time, in a
\* new gift wrap.
WindowEvents ==
  { ResponseEvent(o, i, WindowTimes[i], "DST", 0, 0, 1, 200, <<26, 6, 36, 33>>) :
      o \in FreshOuterIds, i \in 1..Len(WindowTimes) }

WindowNext ==
  \/ \E d \in TimeSteps : AdvanceTime(d)
  \/ OldestTimeTick
  \/ \E e \in WindowEvents : onevent(e)

SpecWindow == ClockInit /\ [][WindowNext]_vars

----------------------------------------------------------------------------
(* The rewind: the interval of lines 378-404 and the handled outer ids     *)

\* Lines 398-402 with <= for <.
ReapedThroughSince(handled, s) ==
  [i \in {j \in DOMAIN handled : ~(handled[j] <= s)} |-> handled[i]]

\* Lines 398-402: the outer ids that survive the reaping.
ReapedEventTimes(handled, s) ==
  [i \in {j \in DOMAIN handled : ~(handled[j] < s)} |-> handled[i]]

\* Lines 381-382 and 385-395 with the previous subscription closed first.
CloseThenSubscribe(s) ==
  << [op |-> "close", handle |-> Subscribed(s, "rewind")],
     [op |-> "subscribe", handle |-> Subscribed(s, "rewind")] >>

\* Lines 381-382 and 385-395: the calls the callback makes on one connection,
\* in the order it makes them.
Resubscribe(s) ==
  << [op |-> "subscribe", handle |-> Subscribed(s, "rewind")],
     [op |-> "close", handle |-> Subscribed(s, "rewind")] >>

\* The subscriptions a connection has open, oldest first, after one call:
\* subscribe opens one more, close ends the one the callback held before.
AfterCall(open, call) ==
  IF call.op = "subscribe" THEN Append(open, call.handle)
  ELSE IF open = <<>> THEN open ELSE Tail(open)

\* The subscriptions a connection has open after the first k calls.
RECURSIVE OpenAfter(_, _, _)
OpenAfter(open, calls, k) ==
  IF k = 0 THEN open
  ELSE AfterCall(OpenAfter(open, calls, k - 1), calls[k])

\* Lines 365-376: the pool exists, and poolSubscribe returns a subscription,
\* only when there are initial relays (line 406).
PoolOpen ==
  IF Len(initialRelayUrls) > 0 THEN <<Subscribed(since, "rewind")>> ELSE <<>>

\* Lines 384-397: every cached relay after the callback's calls on it.
Rewound(cached, s) ==
  [i \in 1..Len(cached) |->
     [cached[i] EXCEPT !.subscription =
        OpenAfter(<<@>>, Resubscribe(s), Len(Resubscribe(s)))[1]]]

\* The interval callback of lines 379-403 runs: the pool and every cached
\* relay are subscribed again with the new since, the old subscriptions are
\* closed, and the outer ids older than since are forgotten; setInterval
\* re-arms it 3_600_000 ms after this run.
RewindTick ==
  /\ ~crashed
  /\ now >= rewindDue
  /\ since' = SinceOf(now)
  /\ cachedRelays' = AsSeq(Rewound(cachedRelays, SinceOf(now)), Len(cachedRelays))
  /\ handledEventTimes' = ReapedEventTimes(handledEventTimes, SinceOf(now))
  /\ rewindDue' = now + 3600000
  /\ UNCHANGED <<now, oldestTime, oldestTimeDue, handledResponseIds, pipelineRuns, responseRuns,
                 pendingResponses, timer, assembled, req, res, socket,
                 published, crashed>>
  /\ UNCHANGED <<configVars, segVars>>

\* Time passes; both interval callbacks run at most MaxLateness late.
RewindAdvance(d) ==
  /\ now + d <= rewindDue + MaxLateness
  /\ AdvanceTime(d)

\* The since of every subscription that is open: the pool's and the cached
\* relays'.
OpenSinces ==
  {PoolOpen[k].since : k \in 1..Len(PoolOpen)}
    \cup {cachedRelays[i].subscription.since : i \in 1..Len(cachedRelays)}

\* The filter of lines 368-373, 386-391 and 477-483: a subscription delivers
\* the events of kind 21059 whose created_at is not before its since.
Deliverable(e) ==
  /\ e.kind = EphemeralGiftWrapKind
  /\ \E s \in OpenSinces : e.created_at >= s

\* The gift wraps the relays hold: the id of an event fixes its content. They
\* are stamped around the since of the first subscription and the since of a
\* rewind that runs on time; one of them does not decrypt.
WireTimes ==
  << SinceOf(StartTime), SinceOf(StartTime) + 1800000,
     SinceOf(StartTime + 3600000) - 1000, SinceOf(StartTime + 3600000),
     SinceOf(StartTime) + 172800000 >>

WireEvents ==
  { [ResponseEvent(k, k, SinceOf(StartTime) + 172800000, "DST", 1, 0, 1, 200,
                   <<26, 6, 36, 33>>)
       EXCEPT !.created_at = WireTimes[k], !.sealDecrypts = (k # 2)] :
      k \in 1..Len(WireTimes) }

\* A relay sends e on a subscription, for the first time or again.
Delivers(e) ==
  /\ Deliverable(e)
  /\ onevent(e)

Redelivers(e) ==
  /\ Deliverable(e)
  /\ AlreadyHaveEvent(e)

RewindInit ==
  /\ Started(PlainConfiguration, StartTime)
  /\ SegIdle

RewindNext ==
  \/ \E d \in TimeSteps : RewindAdvance(d)
  \/ OldestTimeTick
  \/ RewindTick
  \/ \E e \in WireEvents : Delivers(e)
  \/ \E e \in WireEvents : Redelivers(e)

SpecRewind == RewindInit /\ [][RewindNext]_vars

----------------------------------------------------------------------------
(* Subscriptions: hint relays are opened before and after a rewind          *)

SubsInit ==
  /\ \E cfg \in {PoolConfiguration, [PoolConfiguration EXCEPT !.relays = <<>>]} :
       Started(cfg, StartTime)
  /\ SegIdle

\* The gift wraps stamped at the first since, just before the since of a
\* rewind that runs on time, and at it.
SubsEvents == {e \in WireEvents : e.id \in {1, 3, 4}}

SubsNext ==
  \/ \E d \in TimeSteps : RewindAdvance(d)
  \/ OldestTimeTick
  \/ RewindTick
  \/ HandleRequest(1, DropRequest)
  \/ \E connected \in BOOLEAN : RelayConnected(1, connected)
  \/ TimeoutFires(1)
  \/ \E e \in SubsEvents : Delivers(e)
  \/ \E e \in SubsEvents : Redelivers(e)

SpecSubs == SubsInit /\ [][SubsNext]_vars

----------------------------------------------------------------------------
(* Startup, step by step: runServer, lines 168-183, 406-427 and 669-679    *)

\* Lines 43-58: the nsec file holds an nsec, something else, or is absent.
readWriteSecretKey(options) ==
  IF options.holds # "absent"
  THEN IF options.holds # "nsec" THEN "throws" ELSE "loaded"
  ELSE IF ~options.saveNsec THEN "throws" ELSE "generated"

\* Lines 175-180.
SecretKey(options) ==
  IF options.nsecFile THEN readWriteSecretKey(options) ELSE "generated"

\* The second sample taken for a pass.
PassesWithoutRelay(connected) == "listening"

\* Lines 413-421: the first sample with no relay connected leads to the
\* second one.
AfterFirstSample(connected) ==
  IF connected = {} THEN "sleep2" ELSE "listening"

\* Lines 417-420: the second sample with no relay connected throws.
AfterSecondSample(connected) ==
  IF connected = {} THEN "failed" ELSE "listening"

\* runServer is called and runs to its first await (line 411), or to
\* server.listen (line 669) when there is no initial relay, or to the throw
\* of readWriteSecretKey.
RunServer ==
  /\ startup.pc = "start"
  /\ LET key == SecretKey(startup.options)
     IN  startup' =
           IF key = "throws" THEN [startup EXCEPT !.pc = "failed"]
           ELSE IF Len(initialRelayUrls) > 0
                THEN [startup EXCEPT !.pc = "sleep1", !.secretKey = key,
                                     !.subscribed = TRUE]
                ELSE [startup EXCEPT !.pc = "listening", !.secretKey = key]
  /\ UNCHANGED <<initialRelayUrls, fixedDestinationPublicKey, keepHost,
                 maxCachedRelays, clockVars, coreVars, segVars>>

\* Lines 411-413: sleep(1000) is over and getRelaysStatuses resolves with
\* the relays of connected connected.
FirstSample(connected) ==
  /\ startup.pc = "sleep1"
  /\ now' = now + 1000
  /\ startup' = [startup EXCEPT !.pc = AfterFirstSample(connected),
                                !.samples = Append(@, connected)]
  /\ UNCHANGED <<initialRelayUrls, fixedDestinationPublicKey, keepHost,
                 maxCachedRelays, oldestTime, oldestTimeDue, since, rewindDue,
                 coreVars, segVars>>

\* Lines 415-421: sleep(5000) is over and getRelaysStatuses resolves.
SecondSample(connected) ==
  /\ startup.pc = "sleep2"
  /\ now' = now + 5000
  /\ startup' = [startup EXCEPT !.pc = AfterSecondSample(connected),
                                !.samples = Append(@, connected)]
  /\ UNCHANGED <<initialRelayUrls, fixedDestinationPublicKey, keepHost,
                 maxCachedRelays, oldestTime, oldestTimeDue, since, rewindDue,
                 coreVars, segVars>>

\* Lines 412 and 416: the promise of getRelaysStatuses rejects, and
\* runServer with it.
SampleRejects ==
  /\ startup.pc \in {"sleep1", "sleep2"}
  /\ now' = now + (IF startup.pc = "sleep1" THEN 1000 ELSE 5000)
  /\ startup' = [startup EXCEPT !.pc = "failed"]
  /\ UNCHANGED <<initialRelayUrls, fixedDestinationPublicKey, keepHost,
                 maxCachedRelays, oldestTime, oldestTimeDue, since, rewindDue,
                 coreVars, segVars>>

StartupInit ==
  /\ \E l \in {<<>>, <<"wss://a">>, <<"wss://a", "wss://b">>} :
       Constructed([PlainConfiguration EXCEPT !.relays = l], StartTime)
  /\ \E o \in [nsecFile : BOOLEAN, holds : {"nsec", "npub", "absent"},
               saveNsec : BOOLEAN] :
       startup = [pc |-> "start", options |-> o, secretKey |-> "",
                  subscribed |-> FALSE, samples |-> <<>>]
  /\ SegIdle

StartupNext ==
  \/ RunServer
  \/ \E c \in SUBSET {initialRelayUrls[i] : i \in 1..Len(initialRelayUrls)} :
       FirstSample(c)
  \/ \E c \in SUBSET {initialRelayUrls[i] : i \in 1..Len(initialRelayUrls)} :
       SecondSample(c)
  \/ SampleRejects
  \/ \E in \in {PlainRequest, [PlainRequest EXCEPT !.xnd.kind = "nprofile"]} :
       HandleRequest(1, in)
  \/ TimeoutFires(1)

SpecStartup == StartupInit /\ [][StartupNext]_vars

----------------------------------------------------------------------------
(* The segmentation of one request body, step by step                      *)

MaxSeed == 2

\* Body lengths around the chunk boundary: 24576 bytes encode to exactly
\* 32768 base64 characters, 49152 bytes to 65536.
BodyLengths == {0, 1, 2, 3, 4, 24575, 24576, 24577, 49152, 49153}

BodyBytes(n, seed) ==
  AsSeq([i \in 1..n |-> (seed * 89 + i * 37 + (i \div 256)) % 256], n)

SegBodies == {BodyBytes(n, seed) : n \in BodyLengths, seed \in 0..MaxSeed}

SegRequestId == "r1"

SegInit ==
  /\ Started([relays |-> <<>>, destination |-> "", keepHost |-> FALSE,
              maxCachedRelays |-> 1], StartTime)
  /\ segPc = "end"
  /\ body \in SegBodies
  /\ bodyBase64 = <<>>
  /\ bodyBase64Chunks = <<>>
  /\ requestMessages = <<>>

\* line 558
SegEncode ==
  /\ segPc = "end"
  /\ bodyBase64' = Base64Encode(body)
  /\ segPc' = "encoded"
  /\ UNCHANGED <<body, bodyBase64Chunks, requestMessages>>
  /\ UNCHANGED <<configVars, clockVars, coreVars>>

\* lines 559-566
SegSplit ==
  /\ segPc = "encoded"
  /\ bodyBase64Chunks' = Segment(bodyBase64)
  /\ segPc' = "split"
  /\ UNCHANGED <<body, bodyBase64, requestMessages>>
  /\ UNCHANGED <<configVars, clockVars, coreVars>>

\* lines 567-584, the message built by each iteration
SegBuild ==
  /\ segPc = "split"
  /\ requestMessages' =
       AsSeq([k \in 1..Len(bodyBase64Chunks) |->
                RequestMessage(SegRequestId, bodyBase64Chunks, k)],
             Len(bodyBase64Chunks))
  /\ segPc' = "built"
  /\ UNCHANGED <<body, bodyBase64, bodyBase64Chunks>>
  /\ UNCHANGED <<configVars, clockVars, coreVars>>

SegNext == SegEncode \/ SegSplit \/ SegBuild

SpecSeg == SegInit /\ [][SegNext]_vars

----------------------------------------------------------------------------
(* Properties of reassembly, timeout, disconnect and rejection             *)

\* The pending key of request r.
KeyOf(r) == FullId(r, req[r].destinationPublicKey)

\* The bodyBase64 of the stored part with index i, "" when none is stored.
StoredBody(msgs, i) ==
  LET idx == {k \in 1..Len(msgs) : msgs[k].partIndex = i}
  IN  IF idx = {} THEN <<>> ELSE msgs[CHOOSE k \in idx : TRUE].bodyBase64

\* The stored bodies of the indices i..n-1, in ascending partIndex order.
RECURSIVE AscendingBodies(_, _, _)
AscendingBodies(msgs, i, n) ==
  IF i >= n THEN <<>> ELSE StoredBody(msgs, i) \o AscendingBodies(msgs, i + 1, n)

\* C1: every tunneled response written for a pending entry has the status
\* and headers of the stored part with partIndex 0, and its body is the
\* base64 decoding of the bodyBase64 strings of the parts 0..parts-1 joined in
\* ascending partIndex order, whatever the order the parts arrived in.
C1_Reassembly ==
  \A r \in RequestIds :
    res[r].origin = "tunneled" =>
      LET msgs == assembled[r].responseMessages
      IN  /\ assembled[r].done
          /\ res[r].ended
          /\ \E k \in 1..Len(msgs) :
               /\ msgs[k].partIndex = 0
               /\ res[r].status = msgs[k].status
               /\ res[r].headers = msgs[k].headers
          /\ res[r].bytes =
               Base64Decode(AscendingBodies(msgs, 0, assembled[r].parts))

\* C1: a response assembled from part 1 followed by part 0, with different
\* bodies.
C1_Witness ==
  \E r \in RequestIds :
    LET msgs == assembled[r].responseMessages
    IN  /\ res[r].origin = "tunneled"
        /\ assembled[r].parts = 2
        /\ Len(msgs) = 2
        /\ msgs[1].partIndex = 1
        /\ msgs[2].partIndex = 0
        /\ msgs[1].bodyBase64 # msgs[2].bodyBase64

\* C2: when the timer of a request with a registered pending entry fires (no
\* complete response was assembled), 500 'Timed out' is written on that
\* request's response; when that write fails because the response was already
\* sent, the failure is swallowed: nothing crashes, and no other request's
\* response, timer, locals or pending entry changes.
C2_TimeoutWrites500 ==
  [][\A r \in RequestIds :
       (timer[r] = "armed" /\ timer'[r] = "fired") =>
         /\ KeyOf(r) \in DOMAIN pendingResponses
         /\ ~assembled[r].done
         /\ res'[r] = IF res[r].ended THEN res[r]
                      ELSE [ended |-> TRUE, origin |-> "timeout", status |-> 500,
                            headers |-> "", text |-> "Timed out", bytes |-> <<>>]
         /\ ~crashed'
         /\ \A q \in RequestIds \ {r} :
              /\ res'[q] = res[q]
              /\ timer'[q] = timer[q]
              /\ req'[q] = req[q]
              /\ KeyOf(q) \in DOMAIN pendingResponses =>
                   /\ KeyOf(q) \in DOMAIN pendingResponses'
                   /\ pendingResponses'[KeyOf(q)] = pendingResponses[KeyOf(q)]
    ]_vars

\* C2: a request answered 500 'Timed out' while another request is pending.
C2_Witness ==
  \E r \in RequestIds :
    /\ timer[r] = "fired"
    /\ res[r].origin = "timeout"
    /\ res[r].status = 500
    /\ res[r].text = "Timed out"
    /\ \E q \in RequestIds \ {r} : timer[q] = "armed"

\* C3: after a request's timer has fired its pending entry is not in the
\* pending table, and no part that arrives later finds an entry to assemble.
C3_TimeoutRemovesPending ==
  \A r \in RequestIds :
    timer[r] = "fired" =>
      /\ KeyOf(r) \notin DOMAIN pendingResponses
      /\ ~assembled[r].done

\* C4: once the client has disconnected before a response was sent, the
\* request has no pending entry, no armed timer, and pins no cached relay.
C4_DisconnectRemovesPending ==
  \A r \in RequestIds :
    (socket[r] = "closed" /\ ~res[r].ended) =>
      /\ KeyOf(r) \notin DOMAIN pendingResponses
      /\ timer[r] # "armed"
      /\ \A i \in 1..Len(cachedRelays) : r \notin cachedRelays[i].requestIds

\* C5: a request the proxy itself answered with 400 has no pending entry, no
\* timer, and no event published to any relay.
C5_RejectedRequestLeavesNothing ==
  \A r \in RequestIds :
    res[r].origin = "400" =>
      /\ KeyOf(r) \notin DOMAIN pendingResponses
      /\ timer[r] = "unset"
      /\ \A p \in published : p.id # r

\* C6 as stated: the headers of a published part 0 never contain
\* x-nostr-destination, with or without a fixed destination.
C6_HeaderNeverForwarded ==
  \A p \in published :
    p.partIndex = 0 => "x-nostr-destination" \notin p.headers

\* C6, amended: when no fixed destination is configured, the headers of a
\* published part 0 do not contain x-nostr-destination.
C6_HeaderRemovedWithoutFixedDestination ==
  fixedDestinationPublicKey = "" =>
    \A p \in published :
      p.partIndex = 0 => "x-nostr-destination" \notin p.headers

\* C6: a part 0 published for a request routed by its X-Nostr-Destination
\* header, carrying the request's other headers.
C6_Witness ==
  /\ fixedDestinationPublicKey = ""
  /\ \E p \in published :
       /\ p.partIndex = 0
       /\ p.destination = "DST"
       /\ "accept" \in p.headers

\* C11: an event whose inner id is already in handledResponseIds is
\* dropped: it changes neither the handled ids, the pending table, any timer,
\* any response nor the relay pool, also after the request has completed.
C11_DuplicateDropped ==
  [][\A e \in PartEvents \cup ReplayedEvents :
       (e.innerId \in DOMAIN handledResponseIds /\ onevent(e)) =>
         UNCHANGED <<handledResponseIds, pendingResponses, timer, assembled, res,
                     cachedRelays>>
    ]_vars

\* C11: a one-part response completed the request and a copy of it came in
\* another gift wrap.
C11_Witness ==
  /\ res[1].origin = "tunneled"
  /\ assembled[1].parts = 1
  /\ Len(assembled[1].responseMessages) = 1
  /\ Cardinality(DOMAIN handledResponseIds) = 1
  /\ Cardinality(DOMAIN handledEventTimes) = 2

\* C13: when an event passed decryption, verification, the format checks,
\* the replay window and the dedup check, then right after onevent the outer
\* event's id is in handledEventTimes and the inner event's id is in
\* handledResponseIds, each with its created_at.
C13_AcceptedIsRecorded ==
  [][\A e \in Events :
       (onevent(e)
        /\ Pipeline(e, oldestTime, now, DOMAIN handledResponseIds) = "pass") =>
         /\ e.id \in DOMAIN handledEventTimes'
         /\ handledEventTimes'[e.id] = e.created_at
         /\ e.innerId \in DOMAIN handledResponseIds'
         /\ handledResponseIds'[e.innerId] = e.innerCreatedAt
    ]_vars

\* C13: an accepted response answered a request; both maps hold its ids.
C13_Witness ==
  /\ \E r \in RequestIds : res[r].origin = "tunneled"
  /\ Cardinality(DOMAIN handledEventTimes) = 1
  /\ Cardinality(DOMAIN handledResponseIds) = 1

\* C12: a pending entry holds fewer parts than every stored part expects,
\* and an entry is completed holding exactly as many parts as expected.
C12_CompletionAtEquality ==
  /\ \A key \in DOMAIN pendingResponses :
       LET msgs == pendingResponses[key].responseMessages
       IN  \A k \in 1..Len(msgs) : Len(msgs) < msgs[k].parts
  /\ \A r \in RequestIds :
       assembled[r].done =>
         LET msgs == assembled[r].responseMessages
         IN  /\ Len(msgs) = assembled[r].parts
             /\ \A k \in 1..Len(msgs) : msgs[k].parts = assembled[r].parts

----------------------------------------------------------------------------
(* Properties of the relay pool                                            *)

Pinned(cached) == {i \in 1..Len(cached) : cached[i].requestIds # {}}

\* C14: between handler steps the cached list is no longer than
\* maxCachedRelays plus the number of pinned entries, and it is longer than
\* maxCachedRelays only when every entry is pinned.
C14_CacheBound ==
  /\ Len(cachedRelays) <= maxCachedRelays + Cardinality(Pinned(cachedRelays))
  /\ Len(cachedRelays) > maxCachedRelays =>
       Pinned(cachedRelays) = 1..Len(cachedRelays)

\* C14: the list is over the maximum, every entry pinned by a live request.
C14_Witness ==
  /\ Len(cachedRelays) = maxCachedRelays + 1
  /\ Pinned(cachedRelays) = 1..Len(cachedRelays)
  /\ \E r \in RequestIds : res[r].origin = "tunneled"

\* C15: no URL appears twice in the cached list.
C15_UniqueUrls ==
  \A i, j \in 1..Len(cachedRelays) :
    i # j => cachedRelays[i].url # cachedRelays[j].url

\* C16: no entry of the cached list has the URL of an initial relay.
C16_NoInitialRelayCached ==
  \A i \in 1..Len(cachedRelays) :
    \A j \in 1..Len(initialRelayUrls) :
      cachedRelays[i].url # initialRelayUrls[j]

\* C16: a request whose nprofile hinted an initial relay (written with a
\* trailing slash) and another relay has the other relay cached.
C16_Witness ==
  /\ initialRelayUrls = <<"wss://a">>
  /\ \E r \in RequestIds :
       /\ req[r].hintRelays = <<"wss://h2">>
       /\ \E i \in 1..Len(cachedRelays) :
            cachedRelays[i].url = "wss://h2" /\ r \in cachedRelays[i].requestIds

Urls(cached) == {cached[i].url : i \in 1..Len(cached)}

UrlSeq(cached) == [i \in 1..Len(cached) |-> cached[i].url]

\* The hint of the r-th request of the scenario of C17.
ScenarioHint(r) ==
  CASE r = 1 -> <<"wss://h1">>
    [] r = 2 -> <<"wss://h2">>
    [] OTHER -> <<"wss://h3">>

\* C17: entries leave the cached list only when it was longer than the
\* maximum, never taking it below the maximum; every removed entry was
\* unpinned and no unpinned entry closer to the least-recently-used end was
\* kept; afterwards the list is within the maximum or fully pinned. With
\* maximum 2 and three requests one after the other hinting h1, h2, h3, the
\* list after the third is h2, h3.
C17_Eviction ==
  [][LET removed == {i \in 1..Len(cachedRelays) :
                       cachedRelays[i].url \notin Urls(cachedRelays')}
         added   == Cardinality(Urls(cachedRelays') \ Urls(cachedRelays))
         closing == {r \in PoolRequestIds : timer[r] = "armed" /\ timer'[r] # "armed"}
     IN  /\ removed # {} =>
              /\ Len(cachedRelays) + added > maxCachedRelays
              /\ Len(cachedRelays') >= maxCachedRelays
              /\ \A i \in removed :
                   /\ cachedRelays[i].requestIds \subseteq closing
                   /\ \A j \in 1..(i - 1) :
                        j \notin removed =>
                          ~(cachedRelays[j].requestIds \subseteq closing)
         /\ Len(cachedRelays') > maxCachedRelays =>
              \A i \in 1..Len(cachedRelays') : cachedRelays'[i].requestIds # {}
         /\ (/\ maxCachedRelays = 2
             /\ \A r \in 1..3 : /\ req'[r].pc \notin {"none", "connect"}
                                 /\ req'[r].hintRelays = ScenarioHint(r)
             /\ \A r \in PoolRequestIds \ (1..3) : req'[r].pc = "none")
            => UrlSeq(cachedRelays') = <<"wss://h2", "wss://h3">>
    ]_vars

\* C17: the three requests of the scenario are finished and h1 is gone.
C17_Witness ==
  /\ maxCachedRelays = 2
  /\ \A r \in 1..3 : Finished(r) /\ req[r].hintRelays = ScenarioHint(r)
  /\ UrlSeq(cachedRelays) = <<"wss://h2", "wss://h3">>

----------------------------------------------------------------------------
(* Properties of the published tags                                        *)

\* C18: no tag of a published gift wrap holds a relay URL with a username,
\* a password or a query string, while every initial relay, such a URL or
\* not, was published to once part 0 is out.
C18_NoUnsafeUrlInTags ==
  /\ \A p \in published :
       \A t \in 1..Len(p.tags) :
         \A k \in 1..Len(p.tags[t]) : ~Unsafe(p.tags[t][k])
  /\ \A r \in AllRequestIds :
       (req[r].pc \in {"publish", "done"} /\ req[r].partIndex >= 1) =>
         \A i \in 1..Len(initialRelayUrls) :
           \E p \in published : p.id = r /\ p.to = initialRelayUrls[i]

\* C18: a gift wrap was published to an initial relay whose URL has a query
\* string, tagged with the other initial relays.
C18_Witness ==
  \E p \in published :
    /\ p.to = "wss://q/?k=v"
    /\ p.tags = << <<"p", "DST", "wss://a">>, <<"relays", "wss://b">> >>

\* C19: with the safe relays being the initial relays followed by the
\* request's hint relays, unsafe URLs removed, the tags are the p tag with
\* the destination and the first safe relay (none when there is none),
\* followed by a relays tag with the remaining safe relays exactly when there
\* is more than one safe relay.
C19_Tags ==
  \A p \in published :
    LET all  == initialRelayUrls \o req[p.id].hintRelays
        keep == {i \in 1..Len(all) : ~Unsafe(all[i])}
        n    == Cardinality(keep)
        Nth(k) == all[CHOOSE i \in keep : Cardinality({j \in keep : j <= i}) = k]
    IN  /\ p.destination = req[p.id].destinationPublicKey
        /\ Len(p.tags) = IF n > 1 THEN 2 ELSE 1
        /\ p.tags[1] = IF n = 0 THEN <<"p", p.destination>>
                       ELSE <<"p", p.destination, Nth(1)>>
        /\ n > 1 =>
             /\ p.tags[2][1] = "relays"
             /\ Len(p.tags[2]) = n
             /\ \A k \in 2..n : p.tags[2][k] = Nth(k)

\* C19: a gift wrap whose relays tag lists an initial relay and then the
\* request's safe hints, and one with no relay in its p tag.
C19_Witness ==
  \E p \in published :
    /\ p.tags = << <<"p", "DST", "wss://a">>,
                   <<"relays", "wss://b", "wss://h1", "wss://h2">> >>
    /\ p.partIndex = 1

----------------------------------------------------------------------------
(* Properties of the egress failure                                        *)

\* C20: when building or publishing a part of request r fails, the
\* response of r is 500 'Failed' afterwards.
C20_EgressFailureWrites500 ==
  [][\A r \in RequestIds :
       EgressFails(r) =>
         /\ res'[r].ended
         /\ res'[r].status = 500
         /\ res'[r].text = "Failed"
    ]_vars

----------------------------------------------------------------------------
(* Properties of the pending key                                           *)

\* C21: when onevent inserts a part into a pending entry or completes it, the
\* entry is the one of the request whose id the response message carries and
\* whose destination public key signed the seal; a response carrying the id
\* of a live request and sealed by another key changes no pending entry.
C21_KeyedBySealPubkey ==
  [][\A e \in KeyEvents :
       onevent(e) =>
         \A key \in DOMAIN pendingResponses :
           (key \notin DOMAIN pendingResponses'
            \/ pendingResponses'[key] # pendingResponses[key]) =>
             /\ pendingResponses[key].response = e.messageId
             /\ req[e.messageId].destinationPublicKey = e.sealPubkey
    ]_vars

\* C21: request 1 is the only one published and its entry holds no part,
\* while an inner id was recorded: a response carrying its id, sealed by a key
\* that is not its destination, went through onevent.
C21_Witness ==
  /\ KnownIds = {1}
  /\ KeyOf(1) \in DOMAIN pendingResponses
  /\ pendingResponses[KeyOf(1)].responseMessages = <<>>
  /\ handledResponseIds # Empty
  /\ \E r \in RequestIds \ {1} :
       /\ KeyOf(r) \in DOMAIN pendingResponses
       /\ req[r].destinationPublicKey # req[1].destinationPublicKey

\* C22: onevent changes the pending table only for an event of kind 21059
\* whose content decrypts to a seal of kind 13 with a valid signature, whose
\* seal content decrypts to an event of kind 81 with the seal's pubkey, a
\* number created_at, a string id and a string content, and whose message has
\* a string id of 1 to 100 characters, a safe integer partIndex >= 0, a safe
\* integer parts >= 1, a string bodyBase64 and, for partIndex 0, a safe
\* integer status and headers with string values only.
C22_OnlyValidEventsModify ==
  [][\A e \in Events :
       (onevent(e) /\ pendingResponses' # pendingResponses) =>
         /\ e.kind = 21059
         /\ e.sealDecrypts
         /\ e.sealKind = 13
         /\ e.sealVerifies
         /\ e.innerDecrypts
         /\ e.innerKind = 81
         /\ e.innerPubkey = e.sealPubkey
         /\ e.innerCreatedAtIsNumber
         /\ e.innerIdIsString
         /\ e.innerContentIsString
         /\ e.contentIsObject
         /\ e.idShape = "string"
         /\ e.partIndexIsSafeInteger
         /\ e.partIndex >= 0
         /\ e.partsIsSafeInteger
         /\ e.parts >= 1
         /\ e.bodyBase64IsString
         /\ e.partIndex = 0 => e.statusIsSafeInteger /\ e.headersIsStringMap
    ]_vars

\* C22: the entry of request 1 holds one part of two, and two other events
\* were dropped.
C22_Witness ==
  /\ KeyOf(1) \in DOMAIN pendingResponses
  /\ Len(pendingResponses[KeyOf(1)].responseMessages) = 1
  /\ Cardinality(DOMAIN handledEventTimes) = 3
  /\ Cardinality(DOMAIN handledResponseIds) = 1

----------------------------------------------------------------------------
(* Properties of dropped events                                            *)

\* The event is dropped by a step of the pipeline: a decryption fails, a kind
\* is wrong, the signature is invalid, the inner event or the message breaks
\* the schema, the inner event is outside the replay window, its id was
\* handled before, or no pending entry matches.
DroppedEvent(e) ==
  \/ ~e.sealDecrypts \/ ~e.innerDecrypts
  \/ e.kind # 21059 \/ e.sealKind # 13 \/ e.innerKind # 81
  \/ ~e.sealVerifies
  \/ e.innerPubkey # e.sealPubkey
  \/ ~e.innerCreatedAtIsNumber \/ ~e.innerIdIsString \/ ~e.innerContentIsString
  \/ ~e.contentIsObject \/ e.idShape # "string"
  \/ ~e.partIndexIsSafeInteger \/ e.partIndex < 0
  \/ ~e.partsIsSafeInteger \/ e.parts < 1
  \/ ~e.bodyBase64IsString
  \/ (e.partIndex = 0 /\ ~(e.statusIsSafeInteger /\ e.headersIsStringMap))
  \/ e.innerCreatedAt < oldestTime \/ e.innerCreatedAt > now + 600000
  \/ e.innerId \in DOMAIN handledResponseIds
  \/ \A r \in RequestIds :
       ~(/\ e.messageId = r
         /\ e.sealPubkey = req[r].destinationPublicKey
         /\ KeyOf(r) \in DOMAIN pendingResponses)

\* C23: an event dropped at any step of the pipeline changes neither the
\* pending table, any timer, any HTTP response nor the cached relays, and
\* the process goes on handling events.
C23_DroppedEventChangesNothing ==
  [][\A e \in PlainEvents \cup StrayEvents \cup BadEvents :
       (onevent(e) /\ DroppedEvent(e)) =>
         /\ UNCHANGED <<pendingResponses, timer, res, cachedRelays, assembled>>
         /\ ~crashed'
    ]_vars

\* C23: two events were dropped, one of them before its inner id was
\* recorded, and another event completed request 1, which had pinned its
\* hint relay; request 2 is still pending.
C23_Witness ==
  /\ res[1].origin = "tunneled"
  /\ Cardinality(DOMAIN handledEventTimes) = 3
  /\ Cardinality(DOMAIN handledResponseIds) = 2
  /\ Len(cachedRelays) = 1
  /\ timer[2] = "armed"
  /\ ~res[2].ended

----------------------------------------------------------------------------
(* Properties of the expected parts count                                  *)

\* C24: when the entry of request 1 holds the first part stored for it, the
\* parts count of that part decides what the next part does: the entry stays
\* while it holds fewer parts than that count, and otherwise it is completed
\* with that count and a body joined from that many parts, whatever parts
\* value the next part declares.
C24_FirstPartFixesParts ==
  [][\A e \in PartEvents :
       (/\ onevent(e)
        /\ KeyOf(1) \in DOMAIN pendingResponses
        /\ Len(pendingResponses[KeyOf(1)].responseMessages) = 1
        /\ Cardinality(DOMAIN handledResponseIds) = 1
        /\ e.messageId = 1) =>
         LET stored == pendingResponses[KeyOf(1)].responseMessages[1]
             held   == IF e.partIndex = stored.partIndex THEN 1 ELSE 2
         IN  IF held < stored.parts
             THEN KeyOf(1) \in DOMAIN pendingResponses'
             ELSE /\ KeyOf(1) \notin DOMAIN pendingResponses'
                  /\ assembled'[1].parts = stored.parts
                  /\ res'[1].origin = "tunneled" =>
                       res'[1].bytes =
                         Base64Decode(
                           AscendingBodies(assembled'[1].responseMessages, 0,
                                           stored.parts))
    ]_vars

----------------------------------------------------------------------------
(* Properties of the on-close hook                                         *)

\* How many times onClose of request r has run: the timer callback calls it
\* (line 546) and so does the completion of the entry (line 355).
OnCloseRuns(r) ==
  (IF timer[r] = "fired" THEN 1 ELSE 0) + (IF assembled[r].done THEN 1 ELSE 0)

\* C25: the on-close hook of a request has run at most once, and exactly once
\* when the request has ended by completion or by timeout; once the entry of
\* a request is removed its timer is not armed and has not fired after the
\* removal.
C25_OnCloseExactlyOnce ==
  \A r \in RequestIds :
    /\ OnCloseRuns(r) <= 1
    /\ (timer[r] \in {"fired", "cleared"} \/ assembled[r].done) =>
         OnCloseRuns(r) = 1
    /\ (req[r].pc \in {"body", "publish", "done"}
        /\ KeyOf(r) \notin DOMAIN pendingResponses) => timer[r] # "armed"

----------------------------------------------------------------------------
(* Properties of the pins                                                  *)

\* The URLs of the cached relays that request r pins.
PinnedUrls(cached, r) ==
  {cached[i].url : i \in {j \in 1..Len(cached) : r \in cached[j].requestIds}}

\* onClose of request r runs in this step: its timer fires or its entry is
\* completed.
Closes(r) ==
  \/ timer[r] = "armed" /\ timer'[r] = "fired"
  \/ ~assembled[r].done /\ assembled'[r].done

\* C26: a hint relay that a step of request r opened or found in the cache is
\* pinned by r when the step is over, eviction included; and no step removes a
\* relay from those a request pins, or its pin, other than the step that runs
\* the request's own onClose.
C26_PinnedUntilClose ==
  [][\A r \in RequestIds :
       /\ RelayConnected(r, TRUE) =>
            req[r].hintRelays[req[r].hintIndex] \in PinnedUrls(cachedRelays', r)
       /\ (req[r].pc \in {"none", "connect"} /\ req'[r] # req[r]) =>
            \A i \in 1..Len(req'[r].hintRelays) :
              (/\ i < req'[r].hintIndex
               /\ i >= (IF req[r].pc = "none" THEN 1 ELSE req[r].hintIndex + 1)) =>
                req'[r].hintRelays[i] \in PinnedUrls(cachedRelays', r)
       /\ ~Closes(r) => PinnedUrls(cachedRelays, r) \subseteq PinnedUrls(cachedRelays', r)
    ]_vars

\* C26: request 1 pins two relays while one is allowed, and request 2 has
\* ended after pinning one of them and another relay, which was evicted.
C26_Witness ==
  /\ Len(cachedRelays) = 2
  /\ PinnedUrls(cachedRelays, 1) = {"wss://h1", "wss://h3"}
  /\ PinnedUrls(cachedRelays, 2) = {}
  /\ req[2].hintRelays = <<"wss://h2", "wss://h1">>
  /\ req[2].hintIndex = 3
  /\ timer[2] = "fired"
  /\ timer[1] = "armed"

----------------------------------------------------------------------------
(* Properties of the publish loop                                          *)

\* C27: a request with a gift wrap published to some relay has its pending
\* entry under (request id, destination public key) and had its timer set,
\* from the first publish until the entry is completed.
C27_RegisteredBeforePublish ==
  \A p \in published :
    /\ timer[p.id] # "unset"
    /\ ~assembled[p.id].done =>
         /\ FullId(p.id, p.destination) \in DOMAIN pendingResponses
         /\ pendingResponses[FullId(p.id, p.destination)].response = p.id

\* C27: the response to a two-part request came after part 0 was published
\* and before part 1 was, and it found the entry.
C27_Witness ==
  \E r \in RequestIds :
    /\ req[r].pc = "publish"
    /\ req[r].parts = 2
    /\ req[r].partIndex = 1
    /\ res[r].origin = "tunneled"

\* The record of log at position m settles the publish started at position i.
Settles(log, m, i) ==
  /\ log[m].ev \in {"ok", "failed"}
  /\ log[m].part = log[i].part
  /\ log[m].url = log[i].url
  /\ log[m].slot = log[i].slot

\* C28: in the log of a request, a publish of a part starts after every
\* publish of the parts before it has started and settled, and part k + 1 is
\* published only after part k was.
C28_PartsInOrder ==
  \A r \in RequestIds :
    LET log == req[r].log
    IN  \A j \in 1..Len(log) :
          log[j].ev = "start" =>
            /\ \A i \in 1..Len(log) :
                 (log[i].ev = "start" /\ log[i].part < log[j].part) =>
                   /\ i < j
                   /\ \E m \in (i + 1)..(j - 1) : Settles(log, m, i)
            /\ log[j].part > 0 =>
                 \E i \in 1..(j - 1) :
                   log[i].ev = "start" /\ log[i].part = log[j].part - 1

\* C28: both parts of a request went to the two initial relays and to a
\* cached relay, and a publish of part 0 had failed.
C28_Witness ==
  LET log == req[1].log
  IN  /\ req[1].pc = "done"
      /\ req[1].parts = 2
      /\ \E i \in 1..Len(log) : log[i].ev = "failed" /\ log[i].part = 0
      /\ \E i \in 1..Len(log) : log[i] = LogEntry("ok", 1, "wss://h1", 1)
      /\ \E i \in 1..Len(log) : log[i] = LogEntry("ok", 1, "wss://b", 0)

\* What the log of request r shows of its publishes: no part was published
\* twice to one relay connection; in the loop over the cached relays every
\* relay up to the current one was tried for the current part; and once the
\* loop is over every part was tried on every initial relay.
EveryPublishTriedOnce(r) ==
  LET log == req[r].log
  IN  /\ \A i, j \in 1..Len(log) :
           (/\ i # j
            /\ log[i].ev = "start" /\ log[j].ev = "start"
            /\ log[i].part = log[j].part /\ log[i].slot = log[j].slot) =>
             log[i].slot = 0 /\ log[i].url # log[j].url
      /\ req[r].pc = "cached" =>
           \A s \in 1..req[r].targetIndex :
             \E i \in 1..Len(log) :
               log[i] = LogEntry("start", req[r].partIndex, req[r].targets[s], s)
      /\ req[r].pc = "done" =>
           \A k \in 0..(req[r].parts - 1), u \in 1..Len(initialRelayUrls) :
             \E i \in 1..Len(log) :
               log[i] = LogEntry("start", k, initialRelayUrls[u], 0)

\* No publish of request r has succeeded so far.
NothingPublished(r) ==
  \A i \in 1..Len(req[r].log) : req[r].log[i].ev # "ok"

\* C29: the step in which a publish fails changes no HTTP response, pending
\* entry or timer and crashes nothing; the other relays and the later parts
\* are still tried, each once; and a request none of whose publishes
\* succeeded keeps its pending entry and is answered by the timeout alone.
C29_PublishFailureIsLocal ==
  [][\A r \in RequestIds :
       /\ (/\ Len(req'[r].log) > Len(req[r].log)
           /\ req'[r].log[Len(req[r].log) + 1].ev = "failed") =>
            UNCHANGED <<res, pendingResponses, timer, crashed>>
       /\ EveryPublishTriedOnce(r)'
       /\ (req'[r].pc \in {"pool", "cached", "done"} /\ NothingPublished(r)') =>
            /\ KeyOf(r)' \in DOMAIN pendingResponses'
            /\ IF res'[r].ended
               THEN res'[r].origin = "timeout" /\ timer'[r] = "fired"
               ELSE timer'[r] = "armed"
    ]_vars

\* C29: every publish of a two-part request failed, on the initial relays and
\* on the cached relay, and the request was answered by the timeout.
C29_Witness ==
  /\ req[1].pc = "done"
  /\ req[1].parts = 2
  /\ Len(req[1].log) = 12
  /\ NothingPublished(1)
  /\ res[1].origin = "timeout"
  /\ KeyOf(1) \in DOMAIN pendingResponses

----------------------------------------------------------------------------
(* Properties of the handled outer ids                                     *)

\* C30: onevent records the outer id with the event's created_at whatever
\* becomes of the event, and it never runs twice on one outer id, however
\* often the relays deliver the event, also after a rewind of the
\* subscriptions forgot the id.
C30_OuterEventHandledOnce ==
  [][\A e \in WireEvents :
       Delivers(e) =>
         /\ e.id \in DOMAIN handledEventTimes'
         /\ handledEventTimes'[e.id] = e.created_at
         /\ e.id \notin DOMAIN handledEventTimes
         /\ pipelineRuns'[e.id] = 1
    ]_vars

\* C30: after a rewind forgot the ids of two events that went through
\* onevent, one of them failing to decrypt, every event the relays hold has
\* been through onevent.
C30_Witness ==
  /\ since > SinceOf(StartTime)
  /\ DOMAIN pipelineRuns = 1..Len(WireTimes)
  /\ {1, 2} \subseteq DOMAIN pipelineRuns \ DOMAIN handledEventTimes
  /\ 5 \in DOMAIN handledEventTimes

----------------------------------------------------------------------------
(* Properties of the rewind's subscriptions                                *)

\* The calls of one rewind on a connection never leave it without an open
\* subscription: after each of them at least one subscription is open.
NeverUnsubscribed(open, s) ==
  \A k \in 0..Len(Resubscribe(s)) : OpenAfter(open, Resubscribe(s), k) # <<>>

\* C31: on every hourly rewind, for the pool of the initial relays and for
\* each cached hint relay, the subscription with the new since is opened
\* before the previous one is closed, so that a connection that has a
\* subscription is at no instant of the callback without one; and between
\* the rewinds a cached relay keeps the subscription it had, or is a relay
\* that was just connected and subscribed.
C31_ResubscribedBeforeClosed ==
  [][ /\ RewindTick =>
           /\ PoolOpen # <<>> => NeverUnsubscribed(PoolOpen, SinceOf(now))
           /\ PoolOpen # <<>> => PoolOpen' = <<Subscribed(SinceOf(now), "rewind")>>
           /\ \A i \in 1..Len(cachedRelays) :
                /\ NeverUnsubscribed(<<cachedRelays[i].subscription>>, SinceOf(now))
                /\ cachedRelays'[i].url = cachedRelays[i].url
                /\ cachedRelays'[i].subscription = Subscribed(SinceOf(now), "rewind")
      /\ ~RewindTick =>
           /\ PoolOpen' = PoolOpen
           /\ \A j \in 1..Len(cachedRelays') :
                \/ \E i \in 1..Len(cachedRelays) :
                     /\ cachedRelays[i].url = cachedRelays'[j].url
                     /\ cachedRelays[i].subscription = cachedRelays'[j].subscription
                \/ cachedRelays'[j].subscription = Subscribed(SinceOf(now), "connect")
    ]_vars

\* A rewind ran while a hint relay opened before it was cached: the pool and
\* the relay both hold the subscription the rewind opened.
C31_Witness ==
  /\ since > SinceOf(StartTime)
  /\ PoolOpen = <<Subscribed(since, "rewind")>>
  /\ \E i \in 1..Len(cachedRelays) :
       /\ cachedRelays[i].subscription = Subscribed(since, "rewind")
       /\ cachedRelays[i].requestIds # {}

----------------------------------------------------------------------------
(* Properties of the startup                                               *)

\* The samples of the initial relays' connections taken so far.
Samples == startup.samples

\* C32 as stated: the listener accepts requests only after the identity is
\* loaded, the initial subscription is open and an initial relay was sampled
\* as connected; with no relay connected at both samples startup has failed.
C32_ListensAfterConnected ==
  /\ startup.pc = "listening" =>
       /\ startup.secretKey # ""
       /\ startup.subscribed
       /\ \E k \in 1..Len(Samples) : Samples[k] # {}
  /\ req[1].pc # "none" => startup.pc = "listening"
  /\ (Len(Samples) = 2 /\ Samples[1] = {} /\ Samples[2] = {}) =>
       startup.pc = "failed"

\* C32, amended: with at least one initial relay the listener accepts
\* requests only after the identity is loaded, the initial subscription is
\* open and the last sample taken, the first or the second, found a relay
\* connected; with no relay connected at both samples startup has failed, and
\* a failed startup never listens. With no initial relay the listener starts
\* once the identity is loaded, with no subscription and no sample.
C32_ListensAfterConnectedIfRelays ==
  /\ [] /\ (startup.pc = "listening" /\ Len(initialRelayUrls) > 0) =>
             /\ startup.secretKey # ""
             /\ startup.subscribed
             /\ Len(Samples) \in {1, 2}
             /\ Samples[Len(Samples)] # {}
             /\ \A k \in 1..(Len(Samples) - 1) : Samples[k] = {}
        /\ (startup.pc = "listening" /\ Len(initialRelayUrls) = 0) =>
             /\ startup.secretKey # ""
             /\ ~startup.subscribed
             /\ Samples = <<>>
        /\ req[1].pc # "none" => startup.pc = "listening"
        /\ (Len(Samples) = 2 /\ Samples[1] = {} /\ Samples[2] = {}) =>
             startup.pc = "failed"
  /\ [][startup.pc = "failed" => startup'.pc = "failed"]_vars

\* The listener accepted a request after a first sample with no relay
\* connected and a second one with a relay connected.
C32_Witness ==
  /\ startup.pc = "listening"
  /\ Len(Samples) = 2
  /\ Samples[1] = {}
  /\ Samples[2] # {}
  /\ req[1].pc # "none"


----------------------------------------------------------------------------
(* Properties of the answer                                                *)

\* The request has a pending entry, or had one: line 536 ran for it.
Registered(r) == timer[r] # "unset"

\* C33: every HTTP request for which a pending entry was registered
\* eventually has its HTTP response completed, with the tunneled response or
\* with a 500 of the proxy; and no entry is removed, its timer cancelled,
\* with the HTTP response left unanswered.
C33_EveryPendingAnswered ==
  /\ \A r \in RequestIds :
       [](Registered(r) =>
            <>(res[r].ended /\ res[r].origin \in {"tunneled", "timeout", "failed"}))
  /\ [](\A r \in RequestIds : timer[r] = "cleared" => res[r].ended)


----------------------------------------------------------------------------
(* Properties of the stored part indices                                   *)

\* The part indices a part map holds.
StoredIndices(msgs) == {msgs[k].partIndex : k \in 1..Len(msgs)}

\* C34: every part stored for a request, in its pending entry or in the part
\* map it was completed with, has partIndex < parts; a completed entry holds
\* exactly the indices 0..parts-1; and no tunneled response was assembled
\* with one of these indices missing.
C34_StoredIndicesComplete ==
  /\ \A key \in DOMAIN pendingResponses :
       LET msgs == pendingResponses[key].responseMessages
       IN  \A k \in 1..Len(msgs) : msgs[k].partIndex < msgs[k].parts
  /\ \A r \in RequestIds :
       assembled[r].done =>
         LET msgs == assembled[r].responseMessages
         IN  /\ \A k \in 1..Len(msgs) : msgs[k].partIndex < msgs[k].parts
             /\ StoredIndices(msgs) = 0..(assembled[r].parts - 1)
  /\ \A r \in RequestIds :
       res[r].origin = "tunneled" =>
         0..(assembled[r].parts - 1) \subseteq
           StoredIndices(assembled[r].responseMessages)


----------------------------------------------------------------------------
(* Properties of the writes to one response                                *)

\* How many times the handlers called writeHead on the response of request
\* r: a 400 or the 500 'Failed' that was written, the timer callback once it
\* ran (line 541), and a completion that found a part 0 (line 347).
WriteAttempts(r) ==
  (IF res[r].origin \in {"400", "failed"} THEN 1 ELSE 0)
  + (IF timer[r] = "fired" THEN 1 ELSE 0)
  + (IF assembled[r].done /\ MapIndex(assembled[r].responseMessages, 0) # 0
     THEN 1 ELSE 0)

\* C35: for every HTTP request, writeHead is called on its response at most
\* once over all paths (the 400 replies, 500 'Failed', 500 'Timed out' and
\* the tunneled response): once one of them has answered, no timer callback
\* and no response event writes to the same response again.
C35_AnsweredAtMostOnce ==
  \A r \in RequestIds : WriteAttempts(r) <= 1


----------------------------------------------------------------------------
(* Properties of the replays                                               *)

\* C36: oldestTime never decreases; an inner event, the same id with the same
\* created_at, passes the window and dedup checks at most once however often
\* it is sent; an id is reaped from the handled response ids only when its
\* created_at is below the new oldestTime; and the window check rejects every
\* inner event that passed and whose id was reaped since.
C36_InnerEventPassesOnce ==
  /\ [][oldestTime' >= oldestTime]_vars
  /\ [][\A i \in DOMAIN handledResponseIds \ DOMAIN handledResponseIds' :
          handledResponseIds[i] < oldestTime']_vars
  /\ [] /\ \A k \in DOMAIN responseRuns : responseRuns[k] <= 1
        /\ \A k \in DOMAIN responseRuns :
             k[1] \notin DOMAIN handledResponseIds => TooOld(k[2], oldestTime)

\* An inner event passed once, was delivered in three gift wraps, and its id
\* has been reaped since.
C36_Witness ==
  \E k \in DOMAIN responseRuns :
    /\ k[1] \notin DOMAIN handledResponseIds
    /\ oldestTime > k[2]
    /\ Cardinality({o \in DOMAIN handledEventTimes :
                       handledEventTimes[o] = k[2]}) = 3


----------------------------------------------------------------------------
(* Properties of the release of the pins                                   *)

\* C37: a request that pins a cached relay eventually pins none, a request
\* that ended by completion or by its timer pins none from then on, and the
\* step that ends one request leaves the pins of every other request as they
\* were.
C37_PinsReleased ==
  /\ \A r \in RequestIds :
       (PinnedUrls(cachedRelays, r) # {}) ~> (PinnedUrls(cachedRelays, r) = {})
  /\ [](\A r \in RequestIds : Finished(r) => PinnedUrls(cachedRelays, r) = {})
  /\ [][\A r \in RequestIds, q \in RequestIds :
          (Closes(r) /\ ~Closes(q)) =>
            PinnedUrls(cachedRelays', q) = PinnedUrls(cachedRelays, q)]_vars

\* Request 1 pinned two relays and its timer has fired: it pins none, while
\* request 2, still waiting, pins the relay it shared with request 1.
C37_Witness ==
  /\ req[1].hintRelays = <<"wss://h1", "wss://h3">>
  /\ timer[1] = "fired"
  /\ PinnedUrls(cachedRelays, 1) = {}
  /\ req[2].hintRelays = <<"wss://h2", "wss://h1">>
  /\ timer[2] = "armed"
  /\ PinnedUrls(cachedRelays, 2) = {"wss://h2", "wss://h1"}


----------------------------------------------------------------------------
(* Properties of the reaped outer ids                                      *)

\* The outer ids onevent ran on and a rewind has forgotten since.
ReapedIds == DOMAIN pipelineRuns \ DOMAIN handledEventTimes

\* C38: a rewind forgets an outer id only if the event's created_at is below
\* the since of every subscription open after it, and below the since of
\* every subscription open at any later time, hint relays opened since
\* included; so no open subscription delivers an event whose id was
\* forgotten, and every event onevent ran on that a subscription can still
\* deliver has its id in handledEventTimes.
C38_ReapedBelowEverySince ==
  /\ [][RewindTick =>
          \A id \in DOMAIN handledEventTimes \ DOMAIN handledEventTimes' :
            /\ handledEventTimes[id] < since'
            /\ \A i \in 1..Len(cachedRelays') :
                 handledEventTimes[id] < cachedRelays'[i].subscription.since]_vars
  /\ [] /\ \A e \in SubsEvents :
             e.id \in ReapedIds =>
               /\ \A s \in OpenSinces : e.created_at < s
               /\ ~Deliverable(e)
        /\ \A e \in SubsEvents :
             (e.id \in DOMAIN pipelineRuns /\ Deliverable(e)) =>
               e.id \in DOMAIN handledEventTimes
        /\ \A i \in 1..Len(cachedRelays) :
             PoolOpen # <<>> => cachedRelays[i].subscription.since >= since

\* A rewind forgot the ids of two handled events and kept the id of the event
\* stamped at its since, which the pool can still deliver; a hint relay was
\* opened after the rewind, with a later since.
C38_Witness ==
  /\ ReapedIds = {1, 3}
  /\ 4 \in DOMAIN handledEventTimes
  /\ \E e \in SubsEvents : e.id = 4 /\ Deliverable(e)
  /\ PoolOpen # <<>>
  /\ \E i \in 1..Len(cachedRelays) :
       /\ cachedRelays[i].subscription.by = "connect"
       /\ cachedRelays[i].subscription.since > since


----------------------------------------------------------------------------
(* Properties of the replay window                                         *)

\* C9: an event whose inner created_at is below oldestTime or above
\* now + 600 s is rejected and changes neither the handled ids nor the pending
\* table nor any response; created_at = oldestTime and created_at = now + 600 s
\* pass the window check.
C9_ReplayWindow ==
  [][\A o \in DOMAIN handledEventTimes' \ DOMAIN handledEventTimes :
       LET t == handledEventTimes'[o]
       IN  /\ (t < oldestTime \/ t > now + 600000) =>
                UNCHANGED <<handledResponseIds, pendingResponses, timer, assembled,
                            res, cachedRelays>>
           /\ (t = oldestTime - 1000 \/ t = now + 601000) =>
                UNCHANGED <<handledResponseIds, pendingResponses, res>>
           /\ (t = oldestTime \/ t = now + 600000) =>
                \E i \in DOMAIN handledResponseIds' \ DOMAIN handledResponseIds :
                  handledResponseIds'[i] = t
    ]_vars

\* C9: created_at = now + 600 s was accepted and created_at = now + 601 s was
\* dropped.
C9_Witness ==
  /\ \E o \in DOMAIN handledEventTimes : handledEventTimes[o] = now + 601000
  /\ \E i \in DOMAIN handledResponseIds : handledResponseIds[i] = now + 600000
  /\ \A i \in DOMAIN handledResponseIds : handledResponseIds[i] # now + 601000

\* C10: oldestTime never lags more than 60 s + 1 h behind the current time,
\* and every event the ingress would accept now has created_at within
\* [now - 60 s - 1 h, now + 600 s].
C10_WindowLag ==
  /\ now - oldestTime <= 60000 + 3600000
  /\ \A e \in ClockEvents :
       Pipeline(e, oldestTime, now, DOMAIN handledResponseIds) = "pass" =>
         /\ e.innerCreatedAt >= now - 60000 - 3600000
         /\ e.innerCreatedAt <= now + 600000

\* C10: after a tick, with the next one overdue, an event as old as
\* oldestTime was accepted.
C10_Witness ==
  /\ oldestTime > StartTime
  /\ now - oldestTime > 660000
  /\ \E i \in DOMAIN handledResponseIds : handledResponseIds[i] = oldestTime

----------------------------------------------------------------------------
(* Properties of the segmentation                                          *)

CeilDiv(a, b) == (a + b - 1) \div b

\* The bodyBase64 strings of msgs joined in ascending partIndex order, for
\* the indices i..n-1.
RECURSIVE JoinParts(_, _, _)
JoinParts(msgs, i, n) ==
  IF i >= n THEN <<>>
  ELSE LET m == CHOOSE x \in {msgs[k] : k \in 1..Len(msgs)} : x.partIndex = i
       IN  m.bodyBase64 \o JoinParts(msgs, i + 1, n)

\* C7: a body whose base64 form has length L is split into 1 part when L = 0
\* (a single part with bodyBase64 = "") and into ceil(L / 32768) parts
\* otherwise; every part but the last has exactly 32768 characters, the last
\* one the rest; a string of 32768 characters gives one part and one of 32769
\* gives two.
C7_PartCount ==
  /\ segPc \in {"split", "built"} =>
       LET L == Len(bodyBase64)
           n == Len(bodyBase64Chunks)
       IN  /\ n = IF L = 0 THEN 1 ELSE CeilDiv(L, 32768)
           /\ L = 0 => bodyBase64Chunks = << <<<<>>, 0>> >>
           /\ \A k \in 1..(n - 1) : Len(bodyBase64Chunks[k][1]) = 32768
           /\ Len(bodyBase64Chunks[n][1]) = L - (n - 1) * 32768
  /\ Len(ChunkBounds(32768)) = 1
  /\ Len(ChunkBounds(32769)) = 2

\* A body whose base64 form has exactly 32768 characters was split into one part.
C7_Witness ==
  /\ segPc = "split"
  /\ Len(bodyBase64) = 32768
  /\ Len(bodyBase64Chunks) = 1
  /\ Len(bodyBase64Chunks[1][1]) = 32768

\* C8: the parts built from a body B all carry the request id and the same
\* parts count, their partIndex values are 0..parts-1 each once, and their
\* bodyBase64 strings joined in partIndex order base64-decode to B.
C8_RoundTrip ==
  segPc = "built" =>
    LET n == Len(requestMessages)
    IN  /\ n >= 1
        /\ \A k \in 1..n : /\ requestMessages[k].id = SegRequestId
                            /\ requestMessages[k].parts = n
        /\ \A i \in 0..(n - 1) :
             Cardinality({k \in 1..n : requestMessages[k].partIndex = i}) = 1
        /\ Base64Decode(JoinParts(requestMessages, 0, n)) = body

\* A body of 24577 bytes was split into two parts.
C8_Witness ==
  /\ segPc = "built"
  /\ Len(body) = 24577
  /\ Len(requestMessages) = 2
  /\ requestMessages[2].partIndex = 1

====
